---- MODULE Spec2Model ----
(***************************************************************************)
(* Risk-gated trading execution engine of scalp_bot (trade_bot_binance).   *)
(*                                                                         *)
(* RiskManager (app/services/risk_management.py) and TradingEngine         *)
(* (app/services/trading_engine.py) as state machines.                     *)
(*                                                                         *)
(* Units.  Money is in whole USDT.  A float that is a quotient (a          *)
(* quantity, a stop price, a P&L) is an exact rational <<n, d>>, d > 0, so *)
(* the model is the code's arithmetic without float rounding.  Volatility  *)
(* is in thousandths (0.05 is 50).  Time is in units of TimeUnitMinutes    *)
(* minutes; every duration of the code is compared after scaling to        *)
(* minutes or seconds, as the code compares total_seconds().               *)
(*                                                                         *)
(* trading_cache.  What the engine and the RiskManager read through the    *)
(* cache (prices, volatility, liquidity) is an input of the actions that   *)
(* read it, so the stores the loops make into the cache decide nothing in  *)
(* the engine specifications; TradingCache itself is SpecCache, SpecKey    *)
(* and SpecCacheRace.                                                      *)
(***************************************************************************)
EXTENDS Integers, Sequences, FiniteSets, TLC

VARIABLES
    cfg,              \* RiskManager.config
    now,              \* datetime.utcnow(), in time units
    vol,              \* symbol -> what _get_symbol_volatility returns
    liq,              \* symbol -> what _get_symbol_liquidity returns
    pure,             \* last call of a state-free RiskManager operation
    positions,        \* RiskManager.positions: symbol -> list of Position
    last_trade_time,  \* RiskManager.last_trade_time: symbol -> time, or NoTime
    is_running,       \* TradingEngine.is_running
    loops,            \* engine thread -> its control loops that are alive
    pending,          \* engine thread -> locals of _process_trading_signal
                      \*   between validate_trade and _place_order
    active_orders,    \* TradingEngine.active_orders
    next_order_id,    \* the order id the exchange gives next
    signals,          \* rows of the Signal table the signal loop can still read
    last,             \* what the step just taken called and got, if recorded
    profiles,         \* risk_config.py: profile name -> its module-level RiskConfig
    cache,            \* TradingCache._cache: key -> CacheEntry
    stats,            \* TradingCache._stats
    clock,            \* time.time(), in seconds
    backoff,          \* <<thread, loop>>: loops asleep in their except clause
    pc,               \* thread -> where it is inside an unlocked operation of
                      \*   the shared cache or the shared RiskManager
    world,            \* what the collaborators outside the process answer to
                      \*   the call under study: candles, classifiers, database
    monitor           \* the MonitoringService: is_running, its risk loops,
                      \*   alert_history, and the risk alerts it has sent

vars == <<cfg, now, vol, liq, pure, positions, last_trade_time, is_running,
          loops, pending, active_orders, next_order_id, signals, last,
          profiles, cache, stats, clock, backoff, pc, world, monitor>>

cacheVars == <<cache, stats, clock>>
restVars == <<profiles, cacheVars, backoff, pc, world, monitor>>

rmVars == <<positions, last_trade_time>>
engineVars == <<is_running, loops, pending, active_orders, next_order_id, signals>>

Symbols == {"BTCUSDT", "ETHUSDT"}
Sides == {"BUY", "SELL"}

TimeUnitMinutes == 90

----------------------------------------------------------------------------
(* Exact rationals <<n, d>> with d > 0, kept in lowest terms.              *)

RECURSIVE GCD(_, _)
GCD(a, b) == IF b = 0 THEN a ELSE GCD(b, a % b)
Abs(n) == IF n < 0 THEN -n ELSE n

\* n/d in lowest terms (d > 0): equal rationals are equal values.
Rat(n, d) == LET g == GCD(Abs(n), d) IN <<n \div g, d \div g>>
RInt(n) == <<n, 1>>
RLt(a, b) == a[1] * b[2] < b[1] * a[2]
RLe(a, b) == a[1] * b[2] <= b[1] * a[2]
REq(a, b) == a[1] * b[2] = b[1] * a[2]
RMin(a, b) == IF RLe(a, b) THEN a ELSE b
RMax(a, b) == IF RLe(a, b) THEN b ELSE a
RAdd(a, b) == Rat(a[1] * b[2] + b[1] * a[2], a[2] * b[2])
RSub(a, b) == Rat(a[1] * b[2] - b[1] * a[2], a[2] * b[2])
RMul(a, b) == Rat(a[1] * b[1], a[2] * b[2])
RDivInt(a, k) == Rat(a[1], a[2] * k)
RHalf(a) == Rat(a[1], a[2] * 2)

----------------------------------------------------------------------------
(* RiskConfig.                                                             *)

DefaultConfig ==
    [ max_position_size_usdt          |-> 1000,
      max_total_exposure_usdt         |-> 5000,
      max_positions_per_symbol        |-> 1,
      max_daily_loss_usdt             |-> 200,
      max_drawdown_percent            |-> 10,
      stop_loss_percent               |-> 5,
      take_profit_percent             |-> 10,
      max_risk_per_trade_percent      |-> 2,
      max_correlation_threshold       |-> 700,
      max_holding_time_hours          |-> 24,
      min_time_between_trades_minutes |-> 30,
      max_volatility_threshold        |-> 50,
      min_liquidity_usdt              |-> 1000000,
      min_liquidity_to_position_ratio |-> 10 ]

ConservativeConfig ==
    [ max_position_size_usdt          |-> 500,
      max_total_exposure_usdt         |-> 2500,
      max_positions_per_symbol        |-> 1,
      max_daily_loss_usdt             |-> 100,
      max_drawdown_percent            |-> 5,
      stop_loss_percent               |-> 3,
      take_profit_percent             |-> 6,
      max_risk_per_trade_percent      |-> 1,
      max_correlation_threshold       |-> 500,
      max_holding_time_hours          |-> 12,
      min_time_between_trades_minutes |-> 60,
      max_volatility_threshold        |-> 30,
      min_liquidity_usdt              |-> 2000000,
      min_liquidity_to_position_ratio |-> 10 ]

AggressiveConfig ==
    [ max_position_size_usdt          |-> 2000,
      max_total_exposure_usdt         |-> 10000,
      max_positions_per_symbol        |-> 2,
      max_daily_loss_usdt             |-> 400,
      max_drawdown_percent            |-> 15,
      stop_loss_percent               |-> 7,
      take_profit_percent             |-> 15,
      max_risk_per_trade_percent      |-> 3,
      max_correlation_threshold       |-> 800,
      max_holding_time_hours          |-> 48,
      min_time_between_trades_minutes |-> 15,
      max_volatility_threshold        |-> 80,
      min_liquidity_usdt              |-> 500000,
      min_liquidity_to_position_ratio |-> 10 ]

ProfileNames == {"default", "conservative", "aggressive"}

\* DEFAULT_RISK_CONFIG, CONSERVATIVE_RISK_CONFIG and AGGRESSIVE_RISK_CONFIG as
\* the module creates them
InitialProfiles ==
    [ name \in ProfileNames |->
        CASE name = "conservative" -> ConservativeConfig
          [] name = "aggressive"   -> AggressiveConfig
          [] OTHER                 -> DefaultConfig ]

\* validate_risk_config: TRUE iff the configuration is accepted.
ValidateRiskConfig(c) ==
    /\ ~(c.max_position_size_usdt <= 0)
    /\ ~(c.max_total_exposure_usdt <= 0)
    /\ ~(c.max_daily_loss_usdt <= 0)
    /\ ~(c.max_drawdown_percent <= 0 \/ c.max_drawdown_percent > 100)
    /\ ~(c.stop_loss_percent <= 0 \/ c.stop_loss_percent > 50)
    /\ ~(c.take_profit_percent <= 0 \/ c.take_profit_percent > 100)
    /\ ~(c.max_risk_per_trade_percent <= 0 \/ c.max_risk_per_trade_percent > 10)
    /\ ~(c.max_holding_time_hours <= 0)
    /\ ~(c.min_time_between_trades_minutes <= 0)
    /\ ~(c.max_volatility_threshold <= 0 \/ c.max_volatility_threshold > 1000)
    /\ ~(c.min_liquidity_usdt <= 0)
    /\ ~(c.max_position_size_usdt > c.max_total_exposure_usdt)
    /\ ~(c.stop_loss_percent >= c.take_profit_percent)

----------------------------------------------------------------------------
(* Market readings.                                                        *)

VolValues == {30, 90}
LiqValues == {1500, 2000000}

\* _get_symbol_volatility / _get_symbol_liquidity: the value the collaborator
\* (cache or exchange) yields for the symbol at this moment.
GetSymbolVolatility(symbol) == vol[symbol]
GetSymbolLiquidity(symbol) == liq[symbol]

----------------------------------------------------------------------------
(* State-free RiskManager operations.                                      *)

\* A wrong calculate_position_size: the cap on the position is forgotten.
CalculatePositionSize_NoCap(symbol, entry_price, account_balance) ==
    LET risk0 == Rat(account_balance * cfg.max_risk_per_trade_percent, 100)
        risk1 == IF GetSymbolVolatility(symbol) > cfg.max_volatility_threshold
                 THEN RHalf(risk0) ELSE risk0
        planned == RMin(risk1, RInt(cfg.max_position_size_usdt))
        risk2 == IF RLt(RInt(GetSymbolLiquidity(symbol)),
                        RMul(RInt(cfg.min_liquidity_to_position_ratio), planned))
                 THEN RHalf(risk1) ELSE risk1
    IN  RDivInt(risk2, entry_price)

\* calculate_position_size
CalculatePositionSize(symbol, entry_price, account_balance) ==
    LET risk0 == Rat(account_balance * cfg.max_risk_per_trade_percent, 100)
        risk1 == IF GetSymbolVolatility(symbol) > cfg.max_volatility_threshold
                 THEN RHalf(risk0) ELSE risk0
        planned == RMin(risk1, RInt(cfg.max_position_size_usdt))
        risk2 == IF RLt(RInt(GetSymbolLiquidity(symbol)),
                        RMul(RInt(cfg.min_liquidity_to_position_ratio), planned))
                 THEN RHalf(risk1) ELSE risk1
        position_size_usdt == RMin(risk2, RInt(cfg.max_position_size_usdt))
    IN  RDivInt(position_size_usdt, entry_price)

\* A wrong calculate_stop_loss_price: the two sides are swapped.
CalculateStopLossPrice_Swapped(symbol, entry_price, side) ==
    IF side = "BUY"
    THEN Rat(entry_price * (100 + cfg.stop_loss_percent), 100)
    ELSE Rat(entry_price * (100 - cfg.stop_loss_percent), 100)

\* calculate_stop_loss_price
CalculateStopLossPrice(symbol, entry_price, side) ==
    IF side = "BUY"
    THEN Rat(entry_price * (100 - cfg.stop_loss_percent), 100)
    ELSE Rat(entry_price * (100 + cfg.stop_loss_percent), 100)

\* calculate_take_profit_price
CalculateTakeProfitPrice(symbol, entry_price, side) ==
    IF side = "BUY"
    THEN Rat(entry_price * (100 + cfg.take_profit_percent), 100)
    ELSE Rat(entry_price * (100 - cfg.take_profit_percent), 100)

----------------------------------------------------------------------------
(* RiskManager state and the operations that read or change it.            *)

Prices == {90, 95, 100, 110}
EntryPrices == {100}
NoPrice == 0
NoTime == -1

RECURSIVE SeqExposure(_)
SeqExposure(ps) ==
    IF ps = <<>> THEN RInt(0)
    ELSE RAdd(RMul(Head(ps).quantity, RInt(Head(ps).current_price)),
              SeqExposure(Tail(ps)))

RECURSIVE MapExposure(_)
MapExposure(S) ==
    IF S = {} THEN RInt(0)
    ELSE LET s == CHOOSE x \in S : TRUE
         IN  RAdd(SeqExposure(positions[s]), MapExposure(S \ {s}))

\* _calculate_total_exposure
CalculateTotalExposure == MapExposure(Symbols)

\* _calculate_daily_loss (a stub in the code)
CalculateDailyLoss == 0

\* _calculate_drawdown (a stub in the code)
CalculateDrawdown == 0

\* _check_time_between_trades
CheckTimeBetweenTrades(symbol) ==
    IF last_trade_time[symbol] = NoTime THEN TRUE
    ELSE (now - last_trade_time[symbol]) * TimeUnitMinutes * 60
             >= cfg.min_time_between_trades_minutes * 60

\* A wrong validate_trade: the exposure check is made before the size check.
ValidateTrade_ExposureFirst(symbol, side, quantity, price, account_balance) ==
    LET position_value == RMul(quantity, RInt(price))
        total_exposure == RAdd(CalculateTotalExposure, position_value)
        required_liquidity ==
            RMax(RInt(cfg.min_liquidity_usdt),
                 RMul(RInt(cfg.min_liquidity_to_position_ratio), position_value))
    IN  IF ~CheckTimeBetweenTrades(symbol)
        THEN [ok |-> FALSE, reason |-> "too_frequent"]
        ELSE IF RLt(RInt(cfg.max_total_exposure_usdt), total_exposure)
        THEN [ok |-> FALSE, reason |-> "total_exposure"]
        ELSE IF RLt(RInt(cfg.max_position_size_usdt), position_value)
        THEN [ok |-> FALSE, reason |-> "position_size"]
        ELSE IF Len(positions[symbol]) > 0
                /\ Len(positions[symbol]) >= cfg.max_positions_per_symbol
        THEN [ok |-> FALSE, reason |-> "max_positions"]
        ELSE IF CalculateDailyLoss < -cfg.max_daily_loss_usdt
        THEN [ok |-> FALSE, reason |-> "daily_loss"]
        ELSE IF CalculateDrawdown > cfg.max_drawdown_percent
        THEN [ok |-> FALSE, reason |-> "drawdown"]
        ELSE IF GetSymbolVolatility(symbol) > cfg.max_volatility_threshold
        THEN [ok |-> FALSE, reason |-> "volatility"]
        ELSE IF RLt(RInt(GetSymbolLiquidity(symbol)), required_liquidity)
        THEN [ok |-> FALSE, reason |-> "liquidity"]
        ELSE [ok |-> TRUE, reason |-> "allowed"]

\* validate_trade: (ok, reason); the reason names the message the code returns.
\* `symbol in self.positions` is Len(positions[symbol]) > 0: a list, once made,
\* is never emptied.
ValidateTrade(symbol, side, quantity, price, account_balance) ==
    LET position_value == RMul(quantity, RInt(price))
        total_exposure == RAdd(CalculateTotalExposure, position_value)
        required_liquidity ==
            RMax(RInt(cfg.min_liquidity_usdt),
                 RMul(RInt(cfg.min_liquidity_to_position_ratio), position_value))
    IN  IF ~CheckTimeBetweenTrades(symbol)
        THEN [ok |-> FALSE, reason |-> "too_frequent"]
        ELSE IF RLt(RInt(cfg.max_position_size_usdt), position_value)
        THEN [ok |-> FALSE, reason |-> "position_size"]
        ELSE IF RLt(RInt(cfg.max_total_exposure_usdt), total_exposure)
        THEN [ok |-> FALSE, reason |-> "total_exposure"]
        ELSE IF Len(positions[symbol]) > 0
                /\ Len(positions[symbol]) >= cfg.max_positions_per_symbol
        THEN [ok |-> FALSE, reason |-> "max_positions"]
        ELSE IF CalculateDailyLoss < -cfg.max_daily_loss_usdt
        THEN [ok |-> FALSE, reason |-> "daily_loss"]
        ELSE IF CalculateDrawdown > cfg.max_drawdown_percent
        THEN [ok |-> FALSE, reason |-> "drawdown"]
        ELSE IF GetSymbolVolatility(symbol) > cfg.max_volatility_threshold
        THEN [ok |-> FALSE, reason |-> "volatility"]
        ELSE IF RLt(RInt(GetSymbolLiquidity(symbol)), required_liquidity)
        THEN [ok |-> FALSE, reason |-> "liquidity"]
        ELSE [ok |-> TRUE, reason |-> "allowed"]

\* update_position: a new Position is appended, last_trade_time is stamped.
UpdatePosition(symbol, side, quantity, price, order_id) ==
    /\ positions' =
         [positions EXCEPT ![symbol] =
            Append(@, [ symbol         |-> symbol,
                        side           |-> IF side = "BUY" THEN "LONG" ELSE "SHORT",
                        quantity       |-> quantity,
                        entry_price    |-> price,
                        current_price  |-> price,
                        unrealized_pnl |-> RInt(0),
                        realized_pnl   |-> RInt(0),
                        timestamp      |-> now ])]
    /\ last_trade_time' = [last_trade_time EXCEPT ![symbol] = now]

\* check_stop_loss_take_profit, lines 235-242: the position re-priced.
RepricePosition(position, current_price) ==
    [position EXCEPT
       !.current_price = current_price,
       !.unrealized_pnl =
           IF position.side = "LONG"
           THEN RMul(RInt(current_price - position.entry_price), position.quantity)
           ELSE RMul(RInt(position.entry_price - current_price), position.quantity)]

\* A wrong exit signal: the side of the position is not inverted.
ExitSignal_SameSide(type, position, index, current_price) ==
    [ type     |-> type,
      symbol   |-> position.symbol,
      side     |-> IF position.side = "LONG" THEN "BUY" ELSE "SELL",
      quantity |-> position.quantity,
      price    |-> current_price,
      index    |-> index ]

\* check_stop_loss_take_profit: one entry of exit_signals.
ExitSignal(type, position, index, current_price) ==
    [ type     |-> type,
      symbol   |-> position.symbol,
      side     |-> IF position.side = "LONG" THEN "SELL" ELSE "BUY",
      quantity |-> position.quantity,
      price    |-> current_price,
      index    |-> index ]    \* which position of the list (not in the code's dict)

\* check_stop_loss_take_profit, lines 279-280
HoldingTimeExceeded(position) ==
    (now - position.timestamp) * TimeUnitMinutes * 60
        > cfg.max_holding_time_hours * 3600

\* check_stop_loss_take_profit, lines 244-288: the exit signals of one position.
PositionSignals(position, index, current_price) ==
    LET side == IF position.side = "LONG" THEN "BUY" ELSE "SELL"
        stop_loss_price ==
            CalculateStopLossPrice(position.symbol, position.entry_price, side)
        take_profit_price ==
            CalculateTakeProfitPrice(position.symbol, position.entry_price, side)
        sl == IF \/ position.side = "LONG" /\ RLe(RInt(current_price), stop_loss_price)
                 \/ position.side = "SHORT" /\ RLe(stop_loss_price, RInt(current_price))
              THEN <<ExitSignal("STOP_LOSS", position, index, current_price)>>
              ELSE <<>>
        tp == IF \/ position.side = "LONG" /\ RLe(take_profit_price, RInt(current_price))
                 \/ position.side = "SHORT" /\ RLe(RInt(current_price), take_profit_price)
              THEN <<ExitSignal("TAKE_PROFIT", position, index, current_price)>>
              ELSE <<>>
        te == IF HoldingTimeExceeded(position)
              THEN <<ExitSignal("TIME_EXIT", position, index, current_price)>>
              ELSE <<>>
    IN  sl \o tp \o te

RECURSIVE SignalsFrom(_, _, _)
SignalsFrom(ps, index, current_price) ==
    IF index > Len(ps) THEN <<>>
    ELSE PositionSignals(ps[index], index, current_price)
             \o SignalsFrom(ps, index + 1, current_price)

\* check_stop_loss_take_profit: the list it returns.
CheckStopLossTakeProfitSignals(symbol, current_price) ==
    SignalsFrom(positions[symbol], 1, current_price)

\* check_stop_loss_take_profit: the positions map it leaves.
CheckStopLossTakeProfitPositions(symbol, current_price) ==
    [positions EXCEPT ![symbol] =
        [i \in 1..Len(@) |-> RepricePosition(@[i], current_price)]]

----------------------------------------------------------------------------
(* TradingEngine.                                                          *)

MaxThreads == 2        \* engine threads that POST /trading/start can have made
MaxTime == 1           \* the clock stops here
MaxOrders == 3         \* orders the exchange accepts
MaxSignals == 1        \* rows of the Signal table

Threads == 1..MaxThreads
LoopNames == {"price", "signal", "risk", "order"}
FinalSignals == {"BUY", "SELL", "HOLD"}
ExchangeReplies == {"order", "null", "raise"}

\* <<volatility, liquidity>>: calm, volatile, thin
Markets == {<<30, 2000000>>, <<90, 2000000>>, <<30, 1500>>}

\* A RiskConfig that validate_risk_config accepts, with limits close enough for
\* every check of validate_trade to decide, and one hour of holding time.
TightConfig ==
    [ max_position_size_usdt          |-> 300,
      max_total_exposure_usdt         |-> 700,
      max_positions_per_symbol        |-> 2,
      max_daily_loss_usdt             |-> 200,
      max_drawdown_percent            |-> 10,
      stop_loss_percent               |-> 5,
      take_profit_percent             |-> 10,
      max_risk_per_trade_percent      |-> 3,
      max_correlation_threshold       |-> 700,
      max_holding_time_hours          |-> 1,
      min_time_between_trades_minutes |-> 5,
      max_volatility_threshold        |-> 50,
      min_liquidity_usdt              |-> 1000000,
      min_liquidity_to_position_ratio |-> 10 ]

EngineConfigs == {DefaultConfig, TightConfig}

NoPending ==
    [ active |-> FALSE, symbol |-> "BTCUSDT", side |-> "BUY", quantity |-> RInt(0),
      price |-> NoPrice, is_valid |-> FALSE, final_signal |-> "HOLD" ]

NoLast == [op |-> "none"]

\* No call of a state-free operation recorded yet.
NoPure ==
    [ op |-> "none", symbol |-> "BTCUSDT", entry_price |-> 1, side |-> "BUY",
      account_balance |-> 0, quantity |-> RInt(0),
      prev_same |-> FALSE, prev_balance |-> 0, prev_quantity |-> RInt(0),
      stop_loss |-> RInt(0), take_profit |-> RInt(0) ]

\* TradingCache.__init__: the counters
NoStats == [hits |-> 0, misses |-> 0, sets |-> 0, evictions |-> 0]

\* A thread that is inside no operation
IdleThread == [at |-> "idle"]

\* The state after construction of the global RiskManager and the global
\* TradingEngine.
EngineIdle ==
    /\ positions = [s \in Symbols |-> <<>>]
    /\ last_trade_time = [s \in Symbols |-> NoTime]
    /\ is_running = FALSE
    /\ loops = [t \in Threads |-> {}]
    /\ pending = [t \in Threads |-> NoPending]
    /\ active_orders = {}
    /\ next_order_id = 1
    /\ signals = {}
    /\ last = NoLast

\* no call to a collaborator is under study
NoWorld == [kind |-> "none"]

\* a risk loop that does not exist
NoLoop == -1
MaxMonitorLoops == 2

\* MonitoringService.__init__
MonitorIdle ==
    [ is_running |-> FALSE,
      wake |-> [l \in 1..MaxMonitorLoops |-> NoLoop],
      alert_history |-> <<>>,
      sent |-> <<>> ]

\* The state after import of risk_config.py and cache.py, with no loop and no
\* handler under way.
ModulesLoaded ==
    /\ profiles = InitialProfiles
    /\ cache = <<>>
    /\ stats = NoStats
    /\ clock = 0
    /\ backoff = {}
    /\ pc = [t \in Threads |-> IdleThread]
    /\ monitor = MonitorIdle

\* _get_account_balance (a fixed value in the code)
GetAccountBalance == 10000

\* _check_order_status (a fixed value in the code)
CheckOrderStatus(symbol, order_id) == "NEW"

\* _signal_processing_loop, lines 107-110: created_at >= utcnow() - 5 minutes
IsRecent(row) == (now - row.created_at) * TimeUnitMinutes <= 5

\* _signal_processing_loop, line 113
IsTradable(final_signal) == final_signal \in {"BUY", "SELL"}

\* A wrong rejection test: a rejected trade goes on to the exchange.
SignalRejected_Never(is_valid) == FALSE

\* _process_trading_signal, lines 205-207
SignalRejected(is_valid) == ~is_valid

\* A wrong confirmation test: the position is registered whatever came back.
OrderPlaced_Always(reply) == TRUE

\* _process_trading_signal, line 211, `if order:`.  _place_order returns the
\* order the exchange returned, and None when the exchange answered null or
\* raised.
OrderPlaced(reply) == reply = "order"

\* _place_order, lines 253-261: the entry of active_orders.  kind, type and index
\* say what the order was placed for, and filled what the exchange did with it;
\* the code keeps neither.
ActiveOrder(order_id, symbol, side, quantity, price, kind, type, index) ==
    [ orderId |-> order_id, symbol |-> symbol, side |-> side,
      quantity |-> quantity, price |-> price,
      kind |-> kind, type |-> type, index |-> index, filled |-> FALSE ]

\* Whether this engine thread is inside _process_trading_signal: nothing else of
\* the thread's event loop runs until the handler returns.
Busy(t) == pending[t].active

----------------------------------------------------------------------------
(* Environment.                                                            *)

\* Time passes.  The rows of the Signal table that the query of
\* _signal_processing_loop can no longer return are left out of the state.
Tick ==
    /\ now < MaxTime
    /\ now' = now + 1
    /\ signals' = { row \in signals :
                      (now + 1 - row.created_at) * TimeUnitMinutes <= 5 }
    /\ UNCHANGED <<restVars, cfg, vol, liq, pure, rmVars, is_running, loops, pending,
                   active_orders, next_order_id>>
    /\ last' = NoLast

\* The market moves: the collaborators' readings change, for every symbol alike.
MarketMove(m) ==
    /\ vol' = [s \in Symbols |-> m[1]]
    /\ liq' = [s \in Symbols |-> m[2]]
    /\ vol' # vol \/ liq' # liq
    /\ UNCHANGED <<restVars, cfg, now, pure, rmVars, engineVars>>
    /\ last' = NoLast

\* detect_signal persists its decision (ai_signals.py, lines 324-330).
PersistSignal(symbol, final_signal) ==
    /\ Cardinality(signals) < MaxSignals
    /\ signals' = signals \cup
         {[symbol |-> symbol, final_signal |-> final_signal, created_at |-> now]}
    /\ signals' # signals
    /\ UNCHANGED <<restVars, cfg, now, vol, liq, pure, rmVars, is_running, loops, pending,
                   active_orders, next_order_id>>
    /\ last' = NoLast

\* The exchange fills an order; the engine is not told.
ExchangeFill(order) ==
    /\ order \in active_orders
    /\ ~order.filled
    /\ active_orders' = (active_orders \ {order}) \cup {[order EXCEPT !.filled = TRUE]}
    /\ UNCHANGED <<restVars, cfg, now, vol, liq, pure, rmVars, is_running, loops, pending,
                   next_order_id, signals>>
    /\ last' = NoLast

----------------------------------------------------------------------------
(* Engine lifecycle.                                                       *)

\* start(), run on a new thread by POST /trading/start: refused while
\* is_running; else the flag is set and the thread's loops are gathered.  Here
\* only once the loops of every earlier start have ended.
StartEngine(t) ==
    /\ ~is_running
    /\ \A u \in Threads : loops[u] = {}
    /\ t = 1
    /\ is_running' = TRUE
    /\ loops' = [loops EXCEPT ![t] = LoopNames]
    /\ UNCHANGED <<restVars, cfg, now, vol, liq, pure, rmVars, pending, active_orders,
                   next_order_id, signals>>
    /\ last' = NoLast

\* start() while loops of an earlier start, stopped but still asleep, are alive.
StartEngineOverlapping(t) ==
    /\ ~is_running
    /\ \E u \in Threads : loops[u] # {}
    /\ loops[t] = {}
    /\ \A u \in Threads : u < t => loops[u] # {}
    /\ is_running' = TRUE
    /\ loops' = [loops EXCEPT ![t] = LoopNames]
    /\ UNCHANGED <<restVars, cfg, now, vol, liq, pure, rmVars, pending, active_orders,
                   next_order_id, signals>>
    /\ last' = NoLast

\* stop()
StopEngine ==
    /\ is_running
    /\ is_running' = FALSE
    /\ UNCHANGED <<restVars, cfg, now, vol, liq, pure, rmVars, loops, pending, active_orders,
                   next_order_id, signals>>
    /\ last' = NoLast

\* `while self.is_running:` read as false at the top of every loop of the
\* thread: the loops return and the gather of start() completes.
LoopExit(t) ==
    /\ loops[t] # {}
    /\ ~Busy(t)
    /\ ~is_running
    /\ loops' = [loops EXCEPT ![t] = {}]
    /\ UNCHANGED <<restVars, cfg, now, vol, liq, pure, rmVars, is_running, pending,
                   active_orders, next_order_id, signals>>
    /\ last' = NoLast

----------------------------------------------------------------------------
(* Signal loop.                                                            *)

\* _signal_processing_loop, one row, and _process_trading_signal up to the
\* validation (lines 184-207).  price is what _get_current_price returned.
ProcessTradingSignal_Validate(t, row, price) ==
    /\ is_running
    /\ "signal" \in loops[t]
    /\ <<t, "signal">> \notin backoff
    /\ ~Busy(t)
    /\ row \in signals
    /\ IsRecent(row)
    /\ IsTradable(row.final_signal)
    /\ IF price = NoPrice
       THEN /\ UNCHANGED pending
            /\ last' = NoLast
       ELSE LET symbol == row.symbol
                side == row.final_signal
                account_balance == GetAccountBalance
                quantity == CalculatePositionSize(symbol, price, account_balance)
                v == ValidateTrade(symbol, side, quantity, price, account_balance)
            IN  /\ last' = [ op |-> "validate_trade", thread |-> t,
                             symbol |-> symbol, side |-> side,
                             quantity |-> quantity, price |-> price,
                             ok |-> v.ok, reason |-> v.reason ]
                /\ pending' =
                     IF SignalRejected(v.ok) THEN pending
                     ELSE [pending EXCEPT ![t] =
                             [ active |-> TRUE, symbol |-> symbol, side |-> side,
                               quantity |-> quantity, price |-> price,
                               is_valid |-> v.ok,
                               final_signal |-> row.final_signal ]]
    /\ UNCHANGED <<restVars, cfg, now, vol, liq, pure, rmVars, is_running, loops,
                   active_orders, next_order_id, signals>>

\* _process_trading_signal from _place_order on (lines 209-218).  reply is the
\* exchange's answer to place_limit_order.
ProcessTradingSignal_Place(t, reply) ==
    /\ Busy(t)
    /\ reply = "order" => next_order_id <= MaxOrders
    /\ LET p == pending[t]
       IN  /\ active_orders' =
                IF reply = "order"
                THEN active_orders \cup
                       {ActiveOrder(next_order_id, p.symbol, p.side, p.quantity,
                                    p.price, "entry", "ENTRY", 0)}
                ELSE active_orders
           /\ next_order_id' = IF reply = "order" THEN next_order_id + 1
                               ELSE next_order_id
           /\ IF OrderPlaced(reply)
              THEN UpdatePosition(p.symbol, p.side, p.quantity, p.price, next_order_id)
              ELSE UNCHANGED rmVars
           /\ last' = [ op |-> "place_entry", thread |-> t,
                        placed |-> reply = "order" ]
    /\ pending' = [pending EXCEPT ![t] = NoPending]
    /\ UNCHANGED <<restVars, cfg, now, vol, liq, pure, is_running, loops, signals>>

----------------------------------------------------------------------------
(* Price loop.                                                             *)

RECURSIVE CountPlaced(_, _)
CountPlaced(replies, k) ==
    IF k = 0 THEN 0
    ELSE (IF replies[k] = "order" THEN 1 ELSE 0) + CountPlaced(replies, k - 1)

\* _execute_exit_signal for the first k exit signals: the orders it adds.
RECURSIVE ExitOrders(_, _, _)
ExitOrders(sigs, replies, k) ==
    IF k = 0 THEN {}
    ELSE LET earlier == ExitOrders(sigs, replies, k - 1)
             sig == sigs[k]
         IN  IF replies[k] = "order"
             THEN earlier \cup
                    {ActiveOrder(next_order_id + Cardinality(earlier), sig.symbol,
                                 sig.side, sig.quantity, sig.price, "exit",
                                 sig.type, sig.index)}
             ELSE earlier

\* _price_monitoring_loop, one symbol (lines 72-90): the price is read, the
\* positions are checked and re-priced, every exit signal is executed.
PriceMonitoring(t, symbol, price, replies) ==
    /\ is_running
    /\ "price" \in loops[t]
    /\ <<t, "price">> \notin backoff
    /\ ~Busy(t)
    /\ IF price = NoPrice
       THEN /\ replies = <<>>
            /\ UNCHANGED <<positions, active_orders, next_order_id>>
       ELSE LET sigs == CheckStopLossTakeProfitSignals(symbol, price)
                placed == ExitOrders(sigs, replies, Len(sigs))
            IN  /\ Len(replies) = Len(sigs)
                /\ next_order_id + CountPlaced(replies, Len(replies)) <= MaxOrders + 1
                /\ positions' = CheckStopLossTakeProfitPositions(symbol, price)
                /\ active_orders' = active_orders \cup placed
                /\ next_order_id' = next_order_id + Cardinality(placed)
    /\ last' = NoLast
    /\ UNCHANGED <<restVars, cfg, now, vol, liq, pure, last_trade_time, is_running, loops,
                   pending, signals>>

----------------------------------------------------------------------------
(* Order-lifecycle loop.                                                   *)

\* _order_management_loop, one iteration (lines 161-171): orders polled FILLED,
\* CANCELED or EXPIRED leave active_orders; _handle_filled_order only logs.
OrderManagement(t) ==
    /\ is_running
    /\ "order" \in loops[t]
    /\ <<t, "order">> \notin backoff
    /\ ~Busy(t)
    /\ active_orders' =
         { o \in active_orders :
             CheckOrderStatus(o.symbol, o.orderId) \notin {"FILLED", "CANCELED", "EXPIRED"} }
    /\ UNCHANGED <<restVars, cfg, now, vol, liq, pure, rmVars, is_running, loops, pending,
                   next_order_id, signals>>
    /\ last' = NoLast

----------------------------------------------------------------------------
(* Spec: one engine, its loops on one thread, beside the HTTP handlers.    *)

Init ==
    /\ cfg \in EngineConfigs
    /\ now = 0
    /\ \E m \in Markets : /\ vol = [s \in Symbols |-> m[1]]
                           /\ liq = [s \in Symbols |-> m[2]]
    /\ pure = NoPure
    /\ EngineIdle
    /\ ModulesLoaded
    /\ world = NoWorld

SeqsUpTo(S, n) == UNION { [1..k -> S] : k \in 0..n }

Next ==
    \/ Tick
    \/ \E m \in Markets : MarketMove(m)
    \/ \E s \in Symbols, f \in FinalSignals : PersistSignal(s, f)
    \/ \E t \in Threads : StartEngine(t)
    \/ StopEngine
    \/ \E t \in Threads : LoopExit(t)
    \/ \E t \in Threads, row \in signals, p \in EntryPrices \cup {NoPrice} :
           ProcessTradingSignal_Validate(t, row, p)
    \/ \E t \in Threads, r \in ExchangeReplies : ProcessTradingSignal_Place(t, r)
    \/ \E t \in Threads, s \in Symbols, p \in Prices \cup {NoPrice} :
           \E replies \in SeqsUpTo(ExchangeReplies,
                                   IF p = NoPrice THEN 0
                                   ELSE Len(CheckStopLossTakeProfitSignals(s, p))) :
               PriceMonitoring(t, s, p, replies)
    \/ \E t \in Threads : OrderManagement(t)

Spec == Init /\ [][Next]_vars

----------------------------------------------------------------------------
(* SpecRestart: POST /trading/stop followed by POST /trading/start before   *)
(* the loops of the first start, asleep, have read the flag: two engine    *)
(* threads share the engine and the RiskManager.  Default configuration,   *)
(* calm market, the clock at rest.                                         *)

RestartInit ==
    /\ cfg = DefaultConfig
    /\ now = 0
    /\ vol = [s \in Symbols |-> 30]
    /\ liq = [s \in Symbols |-> 2000000]
    /\ pure = NoPure
    /\ EngineIdle
    /\ ModulesLoaded
    /\ world = NoWorld

RestartNext ==
    \/ \E s \in Symbols, f \in FinalSignals : PersistSignal(s, f)
    \/ \E t \in Threads : StartEngine(t)
    \/ \E t \in Threads : StartEngineOverlapping(t)
    \/ StopEngine
    \/ \E t \in Threads : LoopExit(t)
    \/ \E t \in Threads, row \in signals, p \in EntryPrices \cup {NoPrice} :
           ProcessTradingSignal_Validate(t, row, p)
    \/ \E t \in Threads, r \in ExchangeReplies : ProcessTradingSignal_Place(t, r)
    \/ \E t \in Threads, s \in Symbols, p \in Prices \cup {NoPrice} :
           \E replies \in SeqsUpTo(ExchangeReplies,
                                   IF p = NoPrice THEN 0
                                   ELSE Len(CheckStopLossTakeProfitSignals(s, p))) :
               PriceMonitoring(t, s, p, replies)
    \/ \E t \in Threads : OrderManagement(t)

SpecRestart == RestartInit /\ [][RestartNext]_vars

----------------------------------------------------------------------------
(* SpecExit: the life of positions after their entry, with the exchange    *)
(* filling orders.  Tight configuration, calm market.  The loops of a      *)
(* running engine keep iterating (each sleeps a bounded time), and the      *)
(* exchange goes on filling.                                               *)

ExitInit ==
    /\ cfg = TightConfig
    /\ now = 0
    /\ vol = [s \in Symbols |-> 30]
    /\ liq = [s \in Symbols |-> 2000000]
    /\ pure = NoPure
    /\ EngineIdle
    /\ ModulesLoaded
    /\ world = NoWorld

PriceMonitoringStep ==
    \E t \in Threads, s \in Symbols, p \in Prices \cup {NoPrice} :
        \E replies \in SeqsUpTo(ExchangeReplies,
                                IF p = NoPrice THEN 0
                                ELSE Len(CheckStopLossTakeProfitSignals(s, p))) :
            PriceMonitoring(t, s, p, replies)

OrderManagementStep == \E t \in Threads : OrderManagement(t)

ExchangeFillStep == \E o \in active_orders : ExchangeFill(o)

ExitNext ==
    \/ Tick
    \/ \E f \in Sides : PersistSignal("BTCUSDT", f)
    \/ \E t \in Threads : StartEngine(t)
    \/ \E t \in Threads, row \in signals, p \in EntryPrices \cup {NoPrice} :
           ProcessTradingSignal_Validate(t, row, p)
    \/ \E t \in Threads, r \in ExchangeReplies : ProcessTradingSignal_Place(t, r)
    \/ PriceMonitoringStep
    \/ OrderManagementStep
    \/ ExchangeFillStep

SpecExit ==
    /\ ExitInit
    /\ [][ExitNext]_vars
    /\ WF_vars(PriceMonitoringStep)
    /\ WF_vars(OrderManagementStep)
    /\ WF_vars(ExchangeFillStep)

----------------------------------------------------------------------------
(* SpecPure: the state-free operations applied to drawn inputs.            *)

PureStopLoss == {0, 5, 50}
PureTakeProfit == {5, 10, 100}
PureRisk == {2, 10}
PureMaxPosition == {150, 1000}

PureConfigs ==
    { [DefaultConfig EXCEPT !.stop_loss_percent = s,
                            !.take_profit_percent = t,
                            !.max_risk_per_trade_percent = r,
                            !.max_position_size_usdt = m] :
        s \in PureStopLoss, t \in PureTakeProfit,
        r \in PureRisk, m \in PureMaxPosition }

PureEntries == {1, 100, 45000}
PureBalances == {0, 7000, 10000, 100000}

PureInit ==
    /\ cfg \in PureConfigs
    /\ now = 0
    /\ vol \in [Symbols -> VolValues]
    /\ liq \in [Symbols -> LiqValues]
    /\ pure = NoPure
    /\ EngineIdle
    /\ ModulesLoaded
    /\ world = NoWorld

\* GET /risk/position-size/{symbol}: the result, and the previous result when it
\* was for the same symbol and entry price.
CallPositionSize(symbol, entry_price, account_balance) ==
    /\ pure' = [ NoPure EXCEPT
                   !.op = "position_size",
                   !.symbol = symbol,
                   !.entry_price = entry_price,
                   !.account_balance = account_balance,
                   !.quantity = CalculatePositionSize(symbol, entry_price, account_balance),
                   !.prev_same = /\ pure.op = "position_size"
                                 /\ pure.symbol = symbol
                                 /\ pure.entry_price = entry_price,
                   !.prev_balance = IF pure.op = "position_size"
                                    THEN pure.account_balance ELSE 0,
                   !.prev_quantity = IF pure.op = "position_size"
                                     THEN pure.quantity ELSE RInt(0) ]
    /\ UNCHANGED <<restVars, cfg, now, vol, liq, rmVars, engineVars, last>>

\* GET /risk/stop-loss/{symbol} then GET /risk/take-profit/{symbol} with the same
\* entry price and side (test_stop_loss_take_profit).
CallStopLossTakeProfit(symbol, entry_price, side) ==
    /\ pure' = [ NoPure EXCEPT
                   !.op = "sl_tp",
                   !.symbol = symbol,
                   !.entry_price = entry_price,
                   !.side = side,
                   !.stop_loss = CalculateStopLossPrice(symbol, entry_price, side),
                   !.take_profit = CalculateTakeProfitPrice(symbol, entry_price, side) ]
    /\ UNCHANGED <<restVars, cfg, now, vol, liq, rmVars, engineVars, last>>

PureNext ==
    \/ \E s \in Symbols, e \in PureEntries, b \in PureBalances :
           CallPositionSize(s, e, b)
    \/ \E s \in Symbols, e \in PureEntries, d \in Sides :
           CallStopLossTakeProfit(s, e, d)

SpecPure == PureInit /\ [][PureNext]_vars

----------------------------------------------------------------------------
(* Claims about the state-free operations (checked under SpecPure).        *)

\* C8: for a positive entry price and a RiskConfig that validate_risk_config
\* accepts, the stop-loss and take-profit prices computed for the same
\* (entry, side) satisfy stopLoss < entry < takeProfit for BUY and
\* takeProfit < entry < stopLoss for SELL.
Thm_C8_StopBelowEntryBelowTarget ==
    (pure.op = "sl_tp" /\ ValidateRiskConfig(cfg)) =>
        IF pure.side = "BUY"
        THEN /\ RLt(pure.stop_loss, RInt(pure.entry_price))
             /\ RLt(RInt(pure.entry_price), pure.take_profit)
        ELSE /\ RLt(pure.take_profit, RInt(pure.entry_price))
             /\ RLt(RInt(pure.entry_price), pure.stop_loss)

\* C8 witness: both prices were computed for a SELL under an accepted
\* configuration whose take-profit percent is at its upper limit.
Wit_C8_SellAtLimit ==
    /\ pure.op = "sl_tp"
    /\ ValidateRiskConfig(cfg)
    /\ pure.side = "SELL"
    /\ cfg.take_profit_percent = 100
    /\ cfg.stop_loss_percent = 50
    /\ pure.entry_price = 45000

\* C9 (as claimed): for a fixed symbol and entry price (volatility and liquidity
\* unchanged), a larger account balance never gives a smaller position size
\* (stated for the configurations validate_risk_config accepts).
Cex_C9_SizeMonotoneInBalance ==
    (/\ pure.op = "position_size"
     /\ ValidateRiskConfig(cfg)
     /\ pure.prev_same
     /\ pure.prev_balance <= pure.account_balance)
        => RLe(pure.prev_quantity, pure.quantity)

\* The risk amount of the claim: balance * risk% / 100, halved on high volatility,
\* halved again on liquidity below ratio * min(r, maxPositionSize).
ClaimedRiskAmount(symbol, account_balance) ==
    LET base == Rat(account_balance * cfg.max_risk_per_trade_percent, 100)
        afterVol == IF vol[symbol] > cfg.max_volatility_threshold
                    THEN Rat(base[1], 2 * base[2]) ELSE base
        cap == RInt(cfg.max_position_size_usdt)
        planned == IF RLe(afterVol, cap) THEN afterVol ELSE cap
    IN  IF liq[symbol] * planned[2] < cfg.min_liquidity_to_position_ratio * planned[1]
        THEN Rat(afterVol[1], 2 * afterVol[2]) ELSE afterVol

\* C10: calculate_position_size returns min(r, maxPositionSizeUsdt) / entryPrice
\* with r the claimed risk amount; so quantity * entryPrice exceeds neither
\* maxPositionSizeUsdt nor the base risk amount; and without penalties balance
\* 10000, risk 2%, entry 45000 gives 200/45000.
Thm_C10_PositionSizeFormula ==
    pure.op = "position_size" =>
        LET r == ClaimedRiskAmount(pure.symbol, pure.account_balance)
            cap == RInt(cfg.max_position_size_usdt)
            usdt == IF RLe(r, cap) THEN r ELSE cap
            value == RMul(pure.quantity, RInt(pure.entry_price))
        IN  /\ REq(pure.quantity, Rat(usdt[1], usdt[2] * pure.entry_price))
            /\ RLe(value, cap)
            /\ RLe(value, Rat(pure.account_balance * cfg.max_risk_per_trade_percent, 100))
            /\ (/\ vol[pure.symbol] <= cfg.max_volatility_threshold
                /\ liq[pure.symbol] >= cfg.min_liquidity_to_position_ratio * 200
                /\ pure.account_balance = 10000
                /\ cfg.max_risk_per_trade_percent = 2
                /\ cfg.max_position_size_usdt >= 200
                /\ pure.entry_price = 45000)
                   => REq(pure.quantity, Rat(200, 45000))

\* C10 witness: a size was computed with both penalties applied and the cap
\* binding (the quantity is maxPositionSizeUsdt / entryPrice).
Wit_C10_BothPenaltiesAndCap ==
    /\ pure.op = "position_size"
    /\ vol[pure.symbol] > cfg.max_volatility_threshold
    /\ liq[pure.symbol] < cfg.min_liquidity_to_position_ratio * cfg.max_position_size_usdt
    /\ pure.account_balance > 0
    /\ REq(pure.quantity, Rat(cfg.max_position_size_usdt, pure.entry_price))

----------------------------------------------------------------------------
(* Claims about the risk gate (checked under Spec).                        *)

\* The eight checks of C1, each stated on its own.
CooldownPassed(symbol) ==
    \/ last_trade_time[symbol] = NoTime
    \/ (now - last_trade_time[symbol]) * TimeUnitMinutes
           >= cfg.min_time_between_trades_minutes

ValueOf(quantity, price) == Rat(quantity[1] * price, quantity[2])

SizeWithinLimit(quantity, price) ==
    RLe(ValueOf(quantity, price), RInt(cfg.max_position_size_usdt))

ExposureWithinLimit(quantity, price) ==
    RLe(RAdd(CalculateTotalExposure, ValueOf(quantity, price)),
        RInt(cfg.max_total_exposure_usdt))

SlotFree(symbol) == Len(positions[symbol]) < cfg.max_positions_per_symbol

DailyLossWithinLimit == CalculateDailyLoss >= -cfg.max_daily_loss_usdt

DrawdownWithinLimit == CalculateDrawdown <= cfg.max_drawdown_percent

VolatilityWithinLimit(symbol) == vol[symbol] <= cfg.max_volatility_threshold

LiquiditySufficient(symbol, quantity, price) ==
    /\ liq[symbol] >= cfg.min_liquidity_usdt
    /\ RLe(RMul(RInt(cfg.min_liquidity_to_position_ratio), ValueOf(quantity, price)),
           RInt(liq[symbol]))

FirstFailingCheck(symbol, quantity, price) ==
    IF ~CooldownPassed(symbol) THEN "too_frequent"
    ELSE IF ~SizeWithinLimit(quantity, price) THEN "position_size"
    ELSE IF ~ExposureWithinLimit(quantity, price) THEN "total_exposure"
    ELSE IF ~SlotFree(symbol) THEN "max_positions"
    ELSE IF ~DailyLossWithinLimit THEN "daily_loss"
    ELSE IF ~DrawdownWithinLimit THEN "drawdown"
    ELSE IF ~VolatilityWithinLimit(symbol) THEN "volatility"
    ELSE IF ~LiquiditySufficient(symbol, quantity, price) THEN "liquidity"
    ELSE "allowed"

\* The quantities validate_trade is asked about: small, over the position
\* limit of TightConfig, over that of DefaultConfig, and the engine's own size.
AskedQuantities(symbol, price) ==
    {RInt(1), RInt(5), RInt(30),
     CalculatePositionSize(symbol, price, GetAccountBalance)}

\* C1: in every RiskManager state validate_trade answers (false, reason of the
\* FIRST failing check) for the checks taken in the order cooldown, position
\* size, total exposure, positions per symbol, daily loss, drawdown,
\* volatility, liquidity; it answers true only when all eight pass; a trade
\* whose value exceeds max_position_size_usdt is always rejected.  The same
\* holds of the answer the signal loop has just received.
Thm_C1_FirstFailingCheckDecides ==
    /\ \A symbol \in Symbols, price \in Prices :
         \A quantity \in AskedQuantities(symbol, price) :
            LET r == ValidateTrade(symbol, "BUY", quantity, price, GetAccountBalance)
            IN  /\ r.reason = FirstFailingCheck(symbol, quantity, price)
                /\ r.ok <=> FirstFailingCheck(symbol, quantity, price) = "allowed"
                /\ RLt(RInt(cfg.max_position_size_usdt), ValueOf(quantity, price))
                     => ~r.ok
    /\ last.op = "validate_trade" =>
         /\ last.reason = FirstFailingCheck(last.symbol, last.quantity, last.price)
         /\ last.ok <=> last.reason = "allowed"

\* The signal loop was refused for the number of positions in a market whose
\* volatility would have been a reason too: the earlier check names the reason.
Wit_C1_SlotsBeforeVolatility ==
    /\ last.op = "validate_trade"
    /\ ~last.ok
    /\ last.reason = "max_positions"
    /\ ~VolatilityWithinLimit(last.symbol)
    /\ positions[last.symbol] # <<>>

\* The step of thread t in which _place_order is called for an entry.
EntryAttempt(t) ==
    /\ pending[t].active
    /\ last'.op = "place_entry"
    /\ last'.thread = t

NewOrders == active_orders' \ active_orders

\* C2: the signal loop goes on to the exchange only with a persisted row whose
\* final_signal is BUY or SELL, with the quantity calculate_position_size gave
\* and validate_trade accepted for that symbol, quantity and price in the same
\* handler run; an entry order is submitted only so; a rejected validation is
\* followed by no placement.
Thm_C2_RiskGateBeforeEntry ==
    [][ /\ \A t \in Threads :
             (~pending[t].active /\ pending'[t].active) =>
                LET d == pending'[t]
                IN  /\ d.final_signal \in {"BUY", "SELL"}
                    /\ d.side = d.final_signal
                    /\ \E row \in signals : /\ row.symbol = d.symbol
                                            /\ row.final_signal = d.final_signal
                    /\ d.quantity =
                         CalculatePositionSize(d.symbol, d.price, GetAccountBalance)
                    /\ FirstFailingCheck(d.symbol, d.quantity, d.price) = "allowed"
                    /\ last'.op = "validate_trade" /\ last'.ok
                    /\ <<last'.symbol, last'.quantity, last'.price>>
                         = <<d.symbol, d.quantity, d.price>>
        /\ last'.op = "place_entry" => pending[last'.thread].active
        /\ \A o \in NewOrders :
             o.kind = "entry" =>
                \E t \in Threads :
                    /\ EntryAttempt(t)
                    /\ <<o.symbol, o.side, o.quantity, o.price>>
                         = <<pending[t].symbol, pending[t].side,
                             pending[t].quantity, pending[t].price>>
        /\ (last'.op = "validate_trade" /\ ~last'.ok) =>
             /\ \A t \in Threads : ~pending'[t].active \/ pending'[t] = pending[t]
             /\ NewOrders = {}
      ]_vars

\* An entry order has just been accepted by the exchange.
Wit_C2_EntryPlaced ==
    /\ last.op = "place_entry"
    /\ last.placed
    /\ \E o \in active_orders : o.kind = "entry"

\* C3: a Position is appended, and last_trade_time stamped, only in the step in
\* which the exchange returned the entry order; when place_limit_order returns
\* null or raises, positions, last_trade_time and active_orders stay as they
\* were; either way the handler is left, so the decision is not tried again in
\* that run.
Thm_C3_RegisterOnlyConfirmedOrders ==
    [][ /\ \A t \in Threads :
             EntryAttempt(t) =>
                /\ ~pending'[t].active
                /\ IF last'.placed
                   THEN /\ Len(positions'[pending[t].symbol])
                             = Len(positions[pending[t].symbol]) + 1
                        /\ last_trade_time'[pending[t].symbol] = now
                        /\ \E o \in NewOrders : o.symbol = pending[t].symbol
                   ELSE /\ positions' = positions
                        /\ last_trade_time' = last_trade_time
                        /\ active_orders' = active_orders
        /\ \A s \in Symbols :
             (\/ Len(positions'[s]) # Len(positions[s])
              \/ last_trade_time'[s] # last_trade_time[s]) =>
                /\ last'.op = "place_entry"
                /\ last'.placed
                /\ EntryAttempt(last'.thread)
                /\ pending[last'.thread].symbol = s
      ]_vars

\* The exchange has just declined the first entry order: nothing is registered.
Wit_C3_DeclinedEntryLeavesNoTrace ==
    /\ last.op = "place_entry"
    /\ ~last.placed
    /\ \A s \in Symbols : positions[s] = <<>> /\ last_trade_time[s] = NoTime
    /\ active_orders = {}

\* C4: no symbol holds more positions than max_positions_per_symbol.
Cex_C4_PositionsWithinLimit ==
    \A s \in Symbols : Len(positions[s]) <= cfg.max_positions_per_symbol

\* C5: no exit order is submitted for a position while an exit order submitted
\* earlier for that position is still in active_orders.
Cex_C5_NoSecondExitOrder ==
    [][ \A o \in NewOrders :
          o.kind = "exit" =>
             ~ \E q \in active_orders : /\ q.kind = "exit"
                                        /\ q.symbol = o.symbol
                                        /\ q.index = o.index
      ]_vars

\* An exit order for the position at this place of the symbol's list has been
\* placed and filled.
ExitFilled(s, i) ==
    \E o \in active_orders :
        o.kind = "exit" /\ o.symbol = s /\ o.index = i /\ o.filled

\* C6: once an exit order of a position is placed and filled, the position
\* eventually is no longer in the RiskManager's positions.
Cex_C6_FilledExitClosesPosition ==
    \A s \in Symbols : \A i \in 1..MaxOrders :
        ExitFilled(s, i) ~> (i \notin DOMAIN positions[s])

\* C7, one position: what check_stop_loss_take_profit must leave and report.
Reported(sigs, type, i) == { k \in 1..Len(sigs) : sigs[k].type = type /\ sigs[k].index = i }

StopLossDue(position, price) ==
    IF position.side = "LONG"
    THEN price * 100 <= position.entry_price * (100 - cfg.stop_loss_percent)
    ELSE price * 100 >= position.entry_price * (100 + cfg.stop_loss_percent)

TakeProfitDue(position, price) ==
    IF position.side = "LONG"
    THEN price * 100 >= position.entry_price * (100 + cfg.take_profit_percent)
    ELSE price * 100 <= position.entry_price * (100 - cfg.take_profit_percent)

TimeExitDue(position) ==
    (now - position.timestamp) * TimeUnitMinutes > cfg.max_holding_time_hours * 60

PnlAt(position, price) ==
    IF position.side = "LONG"
    THEN Rat((price - position.entry_price) * position.quantity[1], position.quantity[2])
    ELSE Rat((position.entry_price - price) * position.quantity[1], position.quantity[2])

\* C7: check_stop_loss_take_profit(symbol, price) re-prices every position of
\* the symbol (current_price, unrealized_pnl) and nothing else; reports
\* STOP_LOSS, TAKE_PROFIT and TIME_EXIT exactly when the threshold or the
\* holding time is crossed, each at most once per position; every reported
\* exit has the inverse side, the position's quantity and the given price;
\* other symbols' positions are untouched; no positions, no signals.
Thm_C7_ExitSignalsAndRepricing ==
    \A symbol \in Symbols, price \in Prices :
        LET sigs == CheckStopLossTakeProfitSignals(symbol, price)
            post == CheckStopLossTakeProfitPositions(symbol, price)
            n    == Len(positions[symbol])
        IN  /\ \A other \in Symbols \ {symbol} : post[other] = positions[other]
            /\ Len(post[symbol]) = n
            /\ \A i \in 1..n :
                 LET old == positions[symbol][i]
                     new == post[symbol][i]
                 IN  /\ new = [old EXCEPT !.current_price = price,
                                          !.unrealized_pnl = PnlAt(old, price)]
                     /\ Cardinality(Reported(sigs, "STOP_LOSS", i))
                          = IF StopLossDue(old, price) THEN 1 ELSE 0
                     /\ Cardinality(Reported(sigs, "TAKE_PROFIT", i))
                          = IF TakeProfitDue(old, price) THEN 1 ELSE 0
                     /\ Cardinality(Reported(sigs, "TIME_EXIT", i))
                          = IF TimeExitDue(old) THEN 1 ELSE 0
            /\ \A k \in 1..Len(sigs) :
                 /\ sigs[k].type \in {"STOP_LOSS", "TAKE_PROFIT", "TIME_EXIT"}
                 /\ sigs[k].symbol = symbol
                 /\ sigs[k].index \in 1..n
                 /\ sigs[k].side =
                      (IF positions[symbol][sigs[k].index].side = "LONG"
                       THEN "SELL" ELSE "BUY")
                 /\ sigs[k].quantity = positions[symbol][sigs[k].index].quantity
                 /\ sigs[k].price = price
            /\ n = 0 => sigs = <<>>

\* One price tick reported a take-profit and a time exit for the same SHORT
\* position, and the engine placed both exit orders at the tick's price.
Wit_C7_TwoTriggersOneTick ==
    \E s \in Symbols :
        /\ Len(positions[s]) = 1
        /\ positions[s][1].side = "SHORT"
        /\ positions[s][1].current_price # positions[s][1].entry_price
        /\ \E a, b \in active_orders :
              /\ a.kind = "exit" /\ b.kind = "exit"
              /\ a.symbol = s /\ b.symbol = s
              /\ a.type = "TAKE_PROFIT" /\ b.type = "TIME_EXIT"
              /\ a.side = "BUY" /\ b.side = "BUY"
              /\ a.price = positions[s][1].current_price
              /\ b.price = a.price

----------------------------------------------------------------------------
(* SpecValidate: validate_risk_config on configurations that differ from    *)
(* RiskConfig() in one field, in the stop-loss/take-profit pair or in the   *)
(* position/exposure pair.                                                  *)

ConfigFields == DOMAIN DefaultConfig

FieldValues == {-1, 0, 1, 11, 51, 101, 1001, 6000}

CandidateConfigs ==
    { [DefaultConfig EXCEPT ![f] = v] : f \in ConfigFields, v \in FieldValues }
    \cup { [DefaultConfig EXCEPT !.stop_loss_percent = sl,
                                 !.take_profit_percent = tp] :
             sl \in {1, 11, 51}, tp \in {1, 11, 51, 101} }
    \cup { [DefaultConfig EXCEPT !.max_position_size_usdt = mp,
                                 !.max_total_exposure_usdt = me] :
             mp \in {1, 1001, 6000}, me \in {1, 1001, 6000} }

ValidateInit ==
    /\ cfg \in CandidateConfigs
    /\ now = 0
    /\ vol = [s \in Symbols |-> 30]
    /\ liq = [s \in Symbols |-> 2000000]
    /\ pure = NoPure
    /\ EngineIdle
    /\ ModulesLoaded
    /\ world = NoWorld

\* validate_risk_config(config) on the configuration at hand
CallValidateRiskConfig ==
    /\ last' = [op |-> "validate_risk_config", ok |-> ValidateRiskConfig(cfg)]
    /\ UNCHANGED <<restVars, cfg, now, vol, liq, pure, rmVars, engineVars>>

ValidateNext == CallValidateRiskConfig

SpecValidate == ValidateInit /\ [][ValidateNext]_vars

\* C11: validate_risk_config rejects every configuration whose
\* max_positions_per_symbol is below one, whose max_correlation_threshold is
\* outside (0, 1] or whose min_liquidity_to_position_ratio is not positive, as
\* it rejects the out-of-range values of the other numeric fields.
Cex_C11_ValidateCoversEveryField ==
    last.op = "validate_risk_config" =>
        ( ( \/ cfg.max_positions_per_symbol < 1
            \/ cfg.max_correlation_threshold <= 0
            \/ cfg.max_correlation_threshold > 1000
            \/ cfg.min_liquidity_to_position_ratio <= 0 )
          => ~last.ok )

----------------------------------------------------------------------------
(* SpecConfig: calls of get_risk_config, which returns one of the three     *)
(* module-level profile objects after writing the overrides into it.        *)

NoneArg == "None"

AssetSpecificConfigs_LargeBtc ==
    [ a \in {"BTCUSDT", "ETHUSDT", "BNBUSDT"} |->
        CASE a = "BTCUSDT" ->
               [DefaultConfig EXCEPT !.max_position_size_usdt = 3000,
                                     !.max_volatility_threshold = 60,
                                     !.min_liquidity_usdt = 5000000]
          [] a = "ETHUSDT" ->
               [DefaultConfig EXCEPT !.max_position_size_usdt = 1200,
                                     !.max_volatility_threshold = 70,
                                     !.min_liquidity_usdt = 3000000]
          [] OTHER ->
               [DefaultConfig EXCEPT !.max_position_size_usdt = 800,
                                     !.max_volatility_threshold = 80,
                                     !.min_liquidity_usdt = 2000000] ]

\* ASSET_SPECIFIC_CONFIGS: RiskConfig(...) with the named fields set and every
\* other field at its default
AssetSpecificConfigs ==
    [ a \in {"BTCUSDT", "ETHUSDT", "BNBUSDT"} |->
        CASE a = "BTCUSDT" ->
               [DefaultConfig EXCEPT !.max_position_size_usdt = 1500,
                                     !.max_volatility_threshold = 60,
                                     !.min_liquidity_usdt = 5000000]
          [] a = "ETHUSDT" ->
               [DefaultConfig EXCEPT !.max_position_size_usdt = 1200,
                                     !.max_volatility_threshold = 70,
                                     !.min_liquidity_usdt = 3000000]
          [] OTHER ->
               [DefaultConfig EXCEPT !.max_position_size_usdt = 800,
                                     !.max_volatility_threshold = 80,
                                     !.min_liquidity_usdt = 2000000] ]

\* TIMEFRAME_SPECIFIC_CONFIGS
TimeframeSpecificConfigs ==
    [ tf \in {"1m", "5m", "15m", "1h", "4h"} |->
        CASE tf = "1m" ->
               [DefaultConfig EXCEPT !.max_holding_time_hours = 1,
                                     !.min_time_between_trades_minutes = 5,
                                     !.stop_loss_percent = 2,
                                     !.take_profit_percent = 3]
          [] tf = "5m" ->
               [DefaultConfig EXCEPT !.max_holding_time_hours = 4,
                                     !.min_time_between_trades_minutes = 15,
                                     !.stop_loss_percent = 3,
                                     !.take_profit_percent = 6]
          [] tf = "15m" ->
               [DefaultConfig EXCEPT !.max_holding_time_hours = 8,
                                     !.min_time_between_trades_minutes = 30,
                                     !.stop_loss_percent = 4,
                                     !.take_profit_percent = 8]
          [] tf = "1h" ->
               [DefaultConfig EXCEPT !.max_holding_time_hours = 24,
                                     !.min_time_between_trades_minutes = 60,
                                     !.stop_loss_percent = 5,
                                     !.take_profit_percent = 10]
          [] OTHER ->
               [DefaultConfig EXCEPT !.max_holding_time_hours = 72,
                                     !.min_time_between_trades_minutes = 120,
                                     !.stop_loss_percent = 7,
                                     !.take_profit_percent = 15] ]

\* What a caller can pass: the known names, an unknown one, and nothing
ProfileArgs == ProfileNames \cup {"custom"}
AssetArgs == DOMAIN AssetSpecificConfigs \cup {"DOGEUSDT", NoneArg}
TimeframeArgs == DOMAIN TimeframeSpecificConfigs \cup {"1d", NoneArg}

\* The calls made one after another: the asset with the largest position
\* size, the timeframes with the smallest target, the largest stop and the
\* override that writes the cooldown alone
EarlierAssetArgs == {"BTCUSDT", NoneArg}
EarlierTimeframeArgs == {"1m", "1h", "4h", NoneArg}

\* The object get_risk_config takes as base_config
BaseProfile(profile) ==
    IF profile \in {"conservative", "aggressive"} THEN profile ELSE "default"

\* The setattr loop: a field of the override is written into the base object
\* iff its value differs from that of a fresh RiskConfig().
MergeOverrides(base, over) ==
    [ f \in ConfigFields |-> IF over[f] # DefaultConfig[f] THEN over[f] ELSE base[f] ]

\* The profile object as get_risk_config leaves and returns it
GetRiskConfigResult(profile, asset, timeframe) ==
    LET base == profiles[BaseProfile(profile)]
        with_asset ==
            IF asset # NoneArg /\ asset \in DOMAIN AssetSpecificConfigs
            THEN MergeOverrides(base, AssetSpecificConfigs[asset])
            ELSE base
    IN  IF timeframe # NoneArg /\ timeframe \in DOMAIN TimeframeSpecificConfigs
        THEN MergeOverrides(with_asset, TimeframeSpecificConfigs[timeframe])
        ELSE with_asset

GetRiskConfig(profile, asset, timeframe) ==
    /\ profiles' = [profiles EXCEPT ![BaseProfile(profile)] =
                        GetRiskConfigResult(profile, asset, timeframe)]
    /\ last' = [ op |-> "get_risk_config", profile |-> BaseProfile(profile),
                 asset |-> asset, timeframe |-> timeframe ]
    /\ UNCHANGED <<monitor, world, cacheVars, backoff, pc, cfg, now, vol, liq, pure,
                   rmVars,
                   engineVars>>

ConfigInit ==
    /\ cfg = DefaultConfig
    /\ now = 0
    /\ vol = [s \in Symbols |-> 30]
    /\ liq = [s \in Symbols |-> 2000000]
    /\ pure = NoPure
    /\ EngineIdle
    /\ ModulesLoaded
    /\ world = NoWorld

ConfigNext ==
    \E profile \in ProfileArgs, asset \in EarlierAssetArgs,
       timeframe \in EarlierTimeframeArgs :
        GetRiskConfig(profile, asset, timeframe)

SpecConfig == ConfigInit /\ [][ConfigNext]_vars

\* C12: every configuration get_risk_config returns, for every profile, asset
\* and timeframe and after any earlier calls, is accepted by
\* validate_risk_config: the one the last call returned, and the one the next
\* call returns whatever its arguments.
Thm_C12_ReturnedConfigIsValid ==
    /\ last.op = "get_risk_config" => ValidateRiskConfig(profiles[last.profile])
    /\ \A profile \in ProfileArgs, asset \in AssetArgs, timeframe \in TimeframeArgs :
           ValidateRiskConfig(GetRiskConfigResult(profile, asset, timeframe))

\* A conservative profile that earlier calls left with the 4h stop and target
\* is returned for BTCUSDT on the 1h timeframe, whose stop and target are the
\* defaults and so are not written.
Wit_C12_OverridesAccumulate ==
    /\ last.op = "get_risk_config"
    /\ last.profile = "conservative"
    /\ last.asset = "BTCUSDT"
    /\ last.timeframe = "1h"
    /\ profiles["conservative"].stop_loss_percent = 7
    /\ profiles["conservative"].min_time_between_trades_minutes = 60
    /\ profiles["conservative"].max_position_size_usdt = 1500
    /\ profiles["conservative"].max_total_exposure_usdt = 2500

----------------------------------------------------------------------------
(* TradingCache (app/services/cache.py), one caller at a time.              *)

CacheCapacity == 2     \* entries the store holds before set makes room
                       \*   (1000 in the code)
MaxClock == 2          \* the clock of the cache stops here
MaxCacheOps == 4       \* get and set calls made

Prefixes == {"orderbook", "current_price"}
DataValues == {"a", "b"}
TtlValues == {1, 2}

\* The keyword arguments of a call, in the order the caller wrote them
KwargCalls ==
    { << <<"symbol", "BTCUSDT">>, <<"limit", "100">> >>,
      << <<"limit", "100">>, <<"symbol", "BTCUSDT">> >>,
      << <<"symbol", "ETHUSDT">> >> }

\* Position of a parameter name in the order of Python strings
NameRank(name) ==
    CASE name = "interval" -> 1
      [] name = "limit"    -> 2
      [] OTHER             -> 3

\* Insertion of one (name, value) pair into a list sorted by name
RECURSIVE InsertParam(_, _)
InsertParam(pair, sorted) ==
    IF sorted = <<>> THEN <<pair>>
    ELSE IF NameRank(pair[1]) <= NameRank(Head(sorted)[1])
         THEN <<pair>> \o sorted
         ELSE <<Head(sorted)>> \o InsertParam(pair, Tail(sorted))

SortedParams_CallOrder(kwargs) == kwargs

\* sorted(kwargs.items())
RECURSIVE SortedParams(_)
SortedParams(kwargs) ==
    IF kwargs = <<>> THEN <<>>
    ELSE InsertParam(Head(kwargs), SortedParams(Tail(kwargs)))

\* One element of the JSON text of the parameter list
PairCode(pair) ==
    CASE pair = <<"symbol", "BTCUSDT">> -> 1
      [] pair = <<"symbol", "ETHUSDT">> -> 2
      [] pair = <<"limit", "100">>      -> 3
      [] OTHER                          -> 4

DigestBase == 5

\* hashlib.md5(param_str.encode()).hexdigest(): a number that depends on every
\* element of the text and on their order
RECURSIVE Md5(_)
Md5(params) ==
    IF params = <<>> THEN 1
    ELSE Md5(SubSeq(params, 1, Len(params) - 1)) * DigestBase
           + PairCode(params[Len(params)])

\* _generate_key: <<prefix, digest>> for f"{prefix}:{digest}"
GenerateKey(prefix, kwargs) == <<prefix, Md5(SortedParams(kwargs))>>

NoKey == <<"", 0>>

CacheEntry(data, timestamp, ttl) ==
    [data |-> data, timestamp |-> timestamp, ttl |-> ttl]

IsExpired_Late(entry) == clock - entry.timestamp > entry.ttl + 1

IsExpired_AtTtl(entry) == clock - entry.timestamp >= entry.ttl

\* CacheEntry.is_expired
IsExpired(entry) == clock - entry.timestamp > entry.ttl

ExpiredKeys(c) == { k \in DOMAIN c : IsExpired(c[k]) }

\* del of each key of K
Remove(c, K) == [ k \in DOMAIN c \ K |-> c[k] ]

\* self._cache[key] = entry
Put(c, key, entry) == [ k \in DOMAIN c \cup {key} |-> IF k = key THEN entry ELSE c[k] ]

OldestKeys_Newest(c) ==
    { k \in DOMAIN c : \A j \in DOMAIN c : c[k].timestamp >= c[j].timestamp }

\* min(self._cache.keys(), key=timestamp): the keys that can be the minimum
OldestKeys(c) ==
    { k \in DOMAIN c : \A j \in DOMAIN c : c[k].timestamp <= c[j].timestamp }

CacheOps == stats.hits + stats.misses + stats.sets

\* TradingCache.get
CacheGet(prefix, kwargs) ==
    LET key == GenerateKey(prefix, kwargs)
    IN  /\ CacheOps < MaxCacheOps
        /\ IF key \in DOMAIN cache /\ ~IsExpired(cache[key])
           THEN /\ stats' = [stats EXCEPT !.hits = @ + 1]
                /\ cache' = cache
                /\ last' = [ op |-> "get", prefix |-> prefix, kwargs |-> kwargs,
                             key |-> key, found |-> TRUE,
                             result |-> cache[key].data ]
           ELSE /\ IF key \in DOMAIN cache
                   THEN /\ cache' = Remove(cache, {key})
                        /\ stats' = [stats EXCEPT !.evictions = @ + 1,
                                                  !.misses = @ + 1]
                   ELSE /\ cache' = cache
                        /\ stats' = [stats EXCEPT !.misses = @ + 1]
                /\ last' = [ op |-> "get", prefix |-> prefix, kwargs |-> kwargs,
                             key |-> key, found |-> key \in DOMAIN cache,
                             result |-> NoneArg ]
        /\ UNCHANGED <<monitor, world, profiles, clock, backoff, pc, cfg, now, vol, liq, pure,
                       rmVars, engineVars>>

\* TradingCache.set
CacheSet(data, ttl, prefix, kwargs) ==
    LET key == GenerateKey(prefix, kwargs)
        over == Cardinality(DOMAIN cache) > CacheCapacity
        purged == IF over THEN ExpiredKeys(cache) ELSE {}
        cleaned == Remove(cache, purged)
        still_over == over /\ Cardinality(DOMAIN cleaned) > CacheCapacity
    IN  /\ CacheOps < MaxCacheOps
        /\ \E oldest_key \in IF still_over THEN OldestKeys(cleaned) ELSE {NoKey} :
              /\ cache' = Put(Remove(cleaned, {oldest_key}), key,
                              CacheEntry(data, clock, ttl))
              /\ stats' = [stats EXCEPT
                             !.evictions = @ + Cardinality(purged)
                                             + (IF still_over THEN 1 ELSE 0),
                             !.sets = @ + 1]
              /\ last' = [ op |-> "set", prefix |-> prefix, kwargs |-> kwargs,
                           key |-> key, purged |-> purged, evicted |-> oldest_key ]
        /\ UNCHANGED <<monitor, world, profiles, clock, backoff, pc, cfg, now, vol, liq, pure,
                       rmVars, engineVars>>

\* TradingCache.get_stats, with the _cleanup_expired it starts with
CacheGetStats ==
    /\ cache' = Remove(cache, ExpiredKeys(cache))
    /\ stats' = [stats EXCEPT !.evictions = @ + Cardinality(ExpiredKeys(cache))]
    /\ last' = [ op |-> "get_stats",
                 size |-> Cardinality(DOMAIN cache \ ExpiredKeys(cache)),
                 total_requests |-> stats.hits + stats.misses ]
    /\ UNCHANGED <<monitor, world, profiles, clock, backoff, pc, cfg, now, vol, liq, pure,
                   rmVars, engineVars>>

CacheClear_KeepsStats ==
    /\ cache' = <<>>
    /\ stats' = stats
    /\ last' = [op |-> "clear", dropped |-> Cardinality(DOMAIN cache)]
    /\ UNCHANGED <<monitor, world, profiles, clock, backoff, pc, cfg, now, vol, liq, pure,
                   rmVars, engineVars>>

\* TradingCache.clear
CacheClear ==
    /\ cache' = <<>>
    /\ stats' = NoStats
    /\ last' = [op |-> "clear", dropped |-> Cardinality(DOMAIN cache)]
    /\ UNCHANGED <<monitor, world, profiles, clock, backoff, pc, cfg, now, vol, liq, pure,
                   rmVars, engineVars>>

\* A second passes
ClockTick ==
    /\ clock < MaxClock
    /\ clock' = clock + 1
    /\ last' = NoLast
    /\ UNCHANGED <<monitor, world, profiles, cache, stats, backoff, pc, cfg, now, vol, liq, pure,
                   rmVars, engineVars>>

CacheInit == ConfigInit

CacheNext ==
    \/ \E prefix \in Prefixes, kwargs \in KwargCalls : CacheGet(prefix, kwargs)
    \/ \E data \in DataValues, ttl \in TtlValues, prefix \in Prefixes,
          kwargs \in KwargCalls : CacheSet(data, ttl, prefix, kwargs)
    \/ CacheGetStats
    \/ CacheClear
    \/ ClockTick

SpecCache == CacheInit /\ [][CacheNext]_vars

\* The counters after some of them went up by one
Counted(names) == [ n \in DOMAIN stats |-> IF n \in names THEN stats[n] + 1 ELSE stats[n] ]

\* C13: a get of a key whose entry is older than its ttl (now - storedAt > ttl)
\* returns nothing, removes the entry and counts one miss and one eviction,
\* the hits unchanged; a get of a key that has no entry, as after that removal
\* with no set in between, returns nothing, counts one miss and changes
\* nothing else.
Thm_C13_ExpiredGetEvicts ==
    [][ last'.op = "get" =>
          /\ ( /\ last'.key \in DOMAIN cache
               /\ clock - cache[last'.key].timestamp > cache[last'.key].ttl )
             => /\ last'.result = NoneArg
                /\ last'.key \notin DOMAIN cache'
                /\ cache' = Remove(cache, {last'.key})
                /\ stats' = Counted({"misses", "evictions"})
          /\ last'.key \notin DOMAIN cache
             => /\ last'.result = NoneArg
                /\ cache' = cache
                /\ stats' = Counted({"misses"}) ]_vars

\* The first get after the only set found the entry expired, and nothing else
\* had removed it.
Wit_C13_ExpiredEntryRemoved ==
    /\ last.op = "get"
    /\ last.found
    /\ last.result = NoneArg
    /\ last.key \notin DOMAIN cache
    /\ stats = [hits |-> 0, misses |-> 1, sets |-> 1, evictions |-> 1]

\* C14: a get of a key whose entry is not older than its ttl returns the stored
\* value, leaves the store as it is and counts one hit and nothing else, so
\* that two such gets in a row return the same value and count two hits.
Thm_C14_UnexpiredGetHits ==
    [][ ( /\ last'.op = "get"
          /\ last'.key \in DOMAIN cache
          /\ clock - cache[last'.key].timestamp <= cache[last'.key].ttl )
        => /\ last'.result = cache[last'.key].data
           /\ cache' = cache
           /\ stats' = Counted({"hits"}) ]_vars

\* Two hits on the one entry ever stored, the second when its age equals its
\* ttl.
Wit_C14_TwoHitsAtTheLimit ==
    /\ last.op = "get"
    /\ last.found
    /\ last.result \in DataValues
    /\ stats = [hits |-> 2, misses |-> 0, sets |-> 1, evictions |-> 0]
    /\ clock - cache[last.key].timestamp = cache[last.key].ttl

----------------------------------------------------------------------------
(* SpecKey: _generate_key on every way of writing a call.                   *)

KeyPrefixes == Prefixes \cup {"ohlcv", "ai_signal"}

ParamPairs ==
    { <<"symbol", "BTCUSDT">>, <<"symbol", "ETHUSDT">>, <<"limit", "100">>,
      <<"interval", "1m">> }

\* Keyword arguments in every order: no name twice
KwargOrders ==
    { k \in SeqsUpTo(ParamPairs, 3) :
        \A i, j \in 1..Len(k) : i # j => k[i][1] # k[j][1] }

CallGenerateKey(prefix, kwargs) ==
    /\ last' = [ op |-> "generate_key", prefix |-> prefix, kwargs |-> kwargs,
                 key |-> GenerateKey(prefix, kwargs) ]
    /\ UNCHANGED <<restVars, cfg, now, vol, liq, pure, rmVars, engineVars>>

KeyInit == ConfigInit

KeyNext == \E prefix \in KeyPrefixes, kwargs \in KwargOrders : CallGenerateKey(prefix, kwargs)

SpecKey == KeyInit /\ [][KeyNext]_vars

\* The (name, value) pairs of a call, whatever their order
PairSet(kwargs) == { kwargs[i] : i \in 1..Len(kwargs) }

\* C15: the key of a call is the key of every call with the same operation
\* name and the same set of parameter pairs, in whatever order they are
\* written, and is the key of no call with another operation name.
Thm_C15_KeyIgnoresParameterOrder ==
    last.op = "generate_key" =>
        \A prefix \in KeyPrefixes, kwargs \in KwargOrders :
            /\ ( prefix = last.prefix /\ PairSet(kwargs) = PairSet(last.kwargs) )
               => GenerateKey(prefix, kwargs) = last.key
            /\ prefix # last.prefix => GenerateKey(prefix, kwargs) # last.key

\* A call that wrote three parameters in an order that is not the sorted one
Wit_C15_UnsortedCall ==
    /\ last.op = "generate_key"
    /\ Len(last.kwargs) = 3
    /\ last.kwargs[1][1] = "symbol"
    /\ last.kwargs[3][1] = "interval"
    /\ last.key = GenerateKey(last.prefix,
                              <<last.kwargs[3], last.kwargs[2], last.kwargs[1]>>)

\* Keys of the entries older than their ttl, and of the others
Stale(c) == { k \in DOMAIN c : clock - c[k].timestamp > c[k].ttl }
Fresh(c) == DOMAIN c \ Stale(c)

\* C16: a set that finds the store over its capacity first removes every
\* expired entry, each counted as one eviction; only if the store is still
\* over capacity does it remove one more entry, one with the smallest
\* storedAt, counted as one more eviction; every other unexpired entry stays
\* as it was.  A set that finds the store within capacity removes nothing.
Thm_C16_OverflowPurgesThenEvictsOldest ==
    [][ last'.op = "set" =>
          LET key == last'.key
              over == Cardinality(DOMAIN cache) > CacheCapacity
              still_over == over /\ Cardinality(Fresh(cache)) > CacheCapacity
          IN  /\ last'.purged = (IF over THEN Stale(cache) ELSE {})
              /\ \A k \in last'.purged \ {key} : k \notin DOMAIN cache'
              /\ IF still_over
                 THEN /\ last'.evicted \in Fresh(cache)
                      /\ \A j \in Fresh(cache) :
                            cache[last'.evicted].timestamp <= cache[j].timestamp
                      /\ (last'.evicted # key => last'.evicted \notin DOMAIN cache')
                 ELSE last'.evicted = NoKey
              /\ stats'.evictions = stats.evictions + Cardinality(last'.purged)
                                      + (IF still_over THEN 1 ELSE 0)
              /\ \A k \in DOMAIN cache \ (last'.purged \cup {last'.evicted, key}) :
                    k \in DOMAIN cache' /\ cache'[k] = cache[k]
              /\ DOMAIN cache' \subseteq DOMAIN cache \cup {key} ]_vars

\* A set found more entries than the capacity, none of them expired, and
\* removed the oldest one, which was not the key being set.
Wit_C16_OldestEvicted ==
    /\ last.op = "set"
    /\ last.purged = {}
    /\ last.evicted # NoKey
    /\ last.evicted # last.key
    /\ last.evicted \notin DOMAIN cache
    /\ stats.evictions = 1
    /\ \E k \in DOMAIN cache : k # last.key /\ cache[k].timestamp < clock

----------------------------------------------------------------------------
(* SpecCacheRace: TradingCache.get called from two threads at once (the     *)
(* engine thread, a second engine thread, the monitoring thread, a request  *)
(* handler); the cache has no lock, so the statements of the two calls      *)
(* interleave.  set and the clock act between any two statements.           *)

RacePrefix == "current_price"
RaceKwargs == << <<"symbol", "ETHUSDT">> >>
RaceTtl == 1

\* A thread enters get: key = self._generate_key(prefix, **kwargs)
GetBegin(t, prefix, kwargs) ==
    /\ pc[t] = IdleThread
    /\ CacheOps + Cardinality({u \in Threads : pc[u] # IdleThread}) < MaxCacheOps
    /\ pc' = [pc EXCEPT ![t] = [at |-> "test", key |-> GenerateKey(prefix, kwargs)]]
    /\ last' = NoLast
    /\ UNCHANGED <<monitor, world, profiles, cacheVars, backoff, cfg, now, vol, liq, pure, rmVars,
                   engineVars>>

\* if key in self._cache:
GetTest(t) ==
    /\ pc[t].at = "test"
    /\ pc' = [pc EXCEPT ![t] = [at |-> IF pc[t].key \in DOMAIN cache
                                       THEN "load" ELSE "count_miss",
                                key |-> pc[t].key]]
    /\ last' = NoLast
    /\ UNCHANGED <<monitor, world, profiles, cacheVars, backoff, cfg, now, vol, liq, pure, rmVars,
                   engineVars>>

\* entry = self._cache[key]: KeyError if the key has gone since the test
GetLoad(t) ==
    /\ pc[t].at = "load"
    /\ pc' = [pc EXCEPT ![t] =
                IF pc[t].key \in DOMAIN cache
                THEN [at |-> "expiry", key |-> pc[t].key, entry |-> cache[pc[t].key]]
                ELSE [at |-> "raised", key |-> pc[t].key]]
    /\ last' = NoLast
    /\ UNCHANGED <<monitor, world, profiles, cacheVars, backoff, cfg, now, vol, liq, pure, rmVars,
                   engineVars>>

\* if not entry.is_expired():
GetExpiry(t) ==
    /\ pc[t].at = "expiry"
    /\ pc' = [pc EXCEPT ![t] = [at |-> IF IsExpired(pc[t].entry)
                                       THEN "delete" ELSE "count_hit",
                                key |-> pc[t].key, entry |-> pc[t].entry]]
    /\ last' = NoLast
    /\ UNCHANGED <<monitor, world, profiles, cacheVars, backoff, cfg, now, vol, liq, pure, rmVars,
                   engineVars>>

\* self._stats["hits"] += 1; return entry.data
GetHit(t) ==
    /\ pc[t].at = "count_hit"
    /\ stats' = [stats EXCEPT !.hits = @ + 1]
    /\ pc' = [pc EXCEPT ![t] = IdleThread]
    /\ last' = [ op |-> "get", thread |-> t, key |-> pc[t].key,
                 result |-> pc[t].entry.data ]
    /\ UNCHANGED <<monitor, world, profiles, cache, clock, backoff, cfg, now, vol, liq, pure,
                   rmVars, engineVars>>

\* del self._cache[key]: KeyError if the key has gone since the load
GetDelete(t) ==
    /\ pc[t].at = "delete"
    /\ IF pc[t].key \in DOMAIN cache
       THEN /\ cache' = Remove(cache, {pc[t].key})
            /\ pc' = [pc EXCEPT ![t] = [at |-> "count_eviction", key |-> pc[t].key]]
       ELSE /\ cache' = cache
            /\ pc' = [pc EXCEPT ![t] = [at |-> "raised", key |-> pc[t].key]]
    /\ last' = NoLast
    /\ UNCHANGED <<monitor, world, profiles, stats, clock, backoff, cfg, now, vol, liq, pure,
                   rmVars, engineVars>>

\* self._stats["evictions"] += 1
GetCountEviction(t) ==
    /\ pc[t].at = "count_eviction"
    /\ stats' = [stats EXCEPT !.evictions = @ + 1]
    /\ pc' = [pc EXCEPT ![t] = [at |-> "count_miss", key |-> pc[t].key]]
    /\ last' = NoLast
    /\ UNCHANGED <<monitor, world, profiles, cache, clock, backoff, cfg, now, vol, liq, pure,
                   rmVars, engineVars>>

\* self._stats["misses"] += 1; return None
GetMiss(t) ==
    /\ pc[t].at = "count_miss"
    /\ stats' = [stats EXCEPT !.misses = @ + 1]
    /\ pc' = [pc EXCEPT ![t] = IdleThread]
    /\ last' = [ op |-> "get", thread |-> t, key |-> pc[t].key,
                 result |-> NoneArg ]
    /\ UNCHANGED <<monitor, world, profiles, cache, clock, backoff, cfg, now, vol, liq, pure,
                   rmVars, engineVars>>

\* The KeyError leaves get and reaches the caller
GetRaised(t) ==
    /\ pc[t].at = "raised"
    /\ pc' = [pc EXCEPT ![t] = IdleThread]
    /\ last' = [op |-> "get", thread |-> t, key |-> pc[t].key, result |-> "KeyError"]
    /\ UNCHANGED <<monitor, world, profiles, cacheVars, backoff, cfg, now, vol, liq, pure, rmVars,
                   engineVars>>

CacheRaceInit == ConfigInit

CacheRaceNext ==
    \/ \E data \in DataValues : CacheSet(data, RaceTtl, RacePrefix, RaceKwargs)
    \/ ClockTick
    \/ \E t \in Threads : GetBegin(t, RacePrefix, RaceKwargs)
    \/ \E t \in Threads : GetTest(t)
    \/ \E t \in Threads : GetLoad(t)
    \/ \E t \in Threads : GetExpiry(t)
    \/ \E t \in Threads : GetHit(t)
    \/ \E t \in Threads : GetDelete(t)
    \/ \E t \in Threads : GetCountEviction(t)
    \/ \E t \in Threads : GetMiss(t)
    \/ \E t \in Threads : GetRaised(t)

SpecCacheRace == CacheRaceInit /\ [][CacheRaceNext]_vars

\* C17: whatever the interleaving of the cache operations of different
\* threads, no operation raises.
Cex_C17_NoCacheOperationRaises ==
    \A t \in Threads : pc[t].at # "raised"

----------------------------------------------------------------------------
(* SpecLifecycle: the four control loops of one engine thread, each with    *)
(* its own `while self.is_running` and its own `except Exception`.          *)

LoopObservesStop_Never(running) == FALSE

\* The test at the head of each loop: TRUE iff the loop leaves
LoopObservesStop(running) == ~running

LoopsAfterFailure_Escapes(alive, loop) == alive \ {loop}

\* `except Exception` inside the while: the loops of the thread that are alive
\* after an iteration of loop raised
LoopsAfterFailure(alive, loop) == alive

\* The loop is inside an iteration of which the model keeps locals
MidIteration(t, loop) == loop = "signal" /\ Busy(t)

\* An iteration of a loop raises; the except clause logs it and sleeps.
IterationFails(t, loop) ==
    /\ is_running
    /\ loop \in loops[t]
    /\ <<t, loop>> \notin backoff
    /\ ~MidIteration(t, loop)
    /\ loops' = [loops EXCEPT ![t] = LoopsAfterFailure(loops[t], loop)]
    /\ backoff' = backoff \cup {<<t, loop>>}
    /\ last' = [op |-> "iteration_failed", thread |-> t, loop |-> loop]
    /\ UNCHANGED <<monitor, world, profiles, cacheVars, pc, cfg, now, vol, liq, pure, rmVars,
                   is_running, pending, active_orders, next_order_id, signals>>

\* The sleep of the except clause ends: the loop is back at its head.
BackoffEnds(t, loop) ==
    /\ <<t, loop>> \in backoff
    /\ backoff' = backoff \ {<<t, loop>>}
    /\ last' = NoLast
    /\ UNCHANGED <<monitor, world, profiles, cacheVars, pc, cfg, now, vol, liq, pure, rmVars,
                   engineVars>>

\* A loop at its head finds the flag cleared and returns.
LoopReturn(t, loop) ==
    /\ loop \in loops[t]
    /\ <<t, loop>> \notin backoff
    /\ ~MidIteration(t, loop)
    /\ LoopObservesStop(is_running)
    /\ loops' = [loops EXCEPT ![t] = @ \ {loop}]
    /\ last' = NoLast
    /\ UNCHANGED <<restVars, cfg, now, vol, liq, pure, rmVars, is_running, pending,
                   active_orders, next_order_id, signals>>

\* One iteration of _risk_monitoring_loop: get_risk_metrics and two warnings
RiskMonitoring(t) ==
    /\ is_running
    /\ "risk" \in loops[t]
    /\ <<t, "risk">> \notin backoff
    /\ last' = [ op |-> "get_risk_metrics", thread |-> t,
                 total_exposure |-> CalculateTotalExposure,
                 daily_pnl |-> CalculateDailyLoss ]
    /\ UNCHANGED <<restVars, cfg, now, vol, liq, pure, rmVars, engineVars>>

LifecycleInit == RestartInit

PlaceStep == \E t \in Threads, r \in ExchangeReplies : ProcessTradingSignal_Place(t, r)

LifecycleNext ==
    \/ \E f \in Sides : PersistSignal("BTCUSDT", f)
    \/ \E t \in Threads : StartEngine(t)
    \/ StopEngine
    \/ \E t \in Threads, loop \in LoopNames : IterationFails(t, loop)
    \/ \E t \in Threads, loop \in LoopNames : BackoffEnds(t, loop)
    \/ \E t \in Threads, loop \in LoopNames : LoopReturn(t, loop)
    \/ \E t \in Threads, row \in signals, p \in EntryPrices \cup {NoPrice} :
           ProcessTradingSignal_Validate(t, row, p)
    \/ PlaceStep
    \/ PriceMonitoringStep
    \/ OrderManagementStep
    \/ \E t \in Threads : RiskMonitoring(t)

SpecLifecycle ==
    /\ LifecycleInit
    /\ [][LifecycleNext]_vars
    /\ \A t \in Threads, loop \in LoopNames :
          /\ WF_vars(BackoffEnds(t, loop))
          /\ WF_vars(LoopReturn(t, loop))
    /\ WF_vars(PlaceStep)

NoLoopAlive == \A t \in Threads : loops[t] = {}

\* C18: once stop has cleared the flag, every loop that is alive finds it
\* cleared at its head and returns, an iteration under way being finished
\* first, so that eventually no loop is alive; and while no loop is alive no
\* order is placed and none is removed.
Thm_C18_StopEndsEveryLoop ==
    /\ (~is_running) ~> NoLoopAlive
    /\ [][ NoLoopAlive => /\ active_orders' = active_orders
                          /\ next_order_id' = next_order_id ]_vars

\* The engine is stopped with every loop alive, two of them asleep after a
\* failure and the signal loop still between the risk gate and the exchange.
Wit_C18_StoppedMidIteration ==
    /\ ~is_running
    /\ loops[1] = LoopNames
    /\ Busy(1)
    /\ Cardinality(backoff) = 2

\* C19: an iteration of a loop that raises ends that iteration only: every
\* loop that was alive is alive after it, the failed one included, and the
\* failed loop gets back to its head, where it starts its next iteration if
\* the engine still runs.
Thm_C19_FailureEndsOnlyTheIteration ==
    /\ [][ last'.op = "iteration_failed" =>
             /\ last'.loop \in loops'[last'.thread]
             /\ loops' = loops ]_vars
    /\ \A t \in Threads, loop \in LoopNames :
          (<<t, loop>> \in backoff)
             ~> (<<t, loop>> \notin backoff /\ loop \in loops[t])

\* The price loop has just failed while the other three loops are alive, one
\* of them asleep after its own failure, and positions are open.
Wit_C19_TwoLoopsFailed ==
    /\ last.op = "iteration_failed"
    /\ last.loop = "price"
    /\ is_running
    /\ loops[last.thread] = LoopNames
    /\ Cardinality(backoff) = 2
    /\ positions["BTCUSDT"] # <<>>

----------------------------------------------------------------------------
(* SpecRmRace: request handlers (GET /risk/metrics, GET /risk/validate-     *)
(* trade) and the monitoring thread read the global RiskManager while the   *)
(* engine thread writes it.  The RiskManager has no lock: the reader's      *)
(* loops over self.positions interleave with the engine's statements.       *)

\* The keys of self.positions: update_position makes the key of a symbol with
\* its first position, and no position is ever removed
PositionKeys == { s \in Symbols : positions[s] # <<>> }

\* _calculate_total_exposure: `for symbol_positions in self.positions.values()`
\* makes the iterator, which remembers the size of the dict
ExposureBegin(t) ==
    /\ pc[t] = IdleThread
    /\ pc' = [pc EXCEPT ![t] = [ at |-> "values", used |-> Cardinality(PositionKeys),
                                 todo |-> PositionKeys, total |-> RInt(0) ]]
    /\ last' = NoLast
    /\ UNCHANGED <<monitor, world, profiles, cacheVars, backoff, cfg, now, vol, liq, pure, rmVars,
                   engineVars>>

\* next() on the iterator: RuntimeError if the dict has changed size since the
\* iterator was made; then the inner loop over the positions of one symbol,
\* or the return of the total
ExposureNext(t) ==
    /\ pc[t].at = "values"
    /\ IF Cardinality(PositionKeys) # pc[t].used
       THEN /\ pc' = [pc EXCEPT ![t] = [at |-> "size_changed", used |-> pc[t].used]]
            /\ last' = NoLast
       ELSE IF pc[t].todo = {}
            THEN /\ pc' = [pc EXCEPT ![t] = IdleThread]
                 /\ last' = [ op |-> "total_exposure", thread |-> t,
                              total |-> pc[t].total ]
            ELSE /\ \E s \in pc[t].todo :
                      pc' = [pc EXCEPT ![t] =
                               [ at |-> "values", used |-> pc[t].used,
                                 todo |-> pc[t].todo \ {s},
                                 total |-> RAdd(pc[t].total,
                                                SeqExposure(positions[s])) ]]
                 /\ last' = NoLast
    /\ UNCHANGED <<monitor, world, profiles, cacheVars, backoff, cfg, now, vol, liq, pure, rmVars,
                   engineVars>>

\* "dictionary changed size during iteration" reaches the handler
ExposureRaised(t) ==
    /\ pc[t].at = "size_changed"
    /\ pc' = [pc EXCEPT ![t] = IdleThread]
    /\ last' = [op |-> "total_exposure", thread |-> t, total |-> "RuntimeError"]
    /\ UNCHANGED <<monitor, world, profiles, cacheVars, backoff, cfg, now, vol, liq, pure, rmVars,
                   engineVars>>

\* The threads that read: one request handler
Readers == {MaxThreads}

RmRaceInit == RestartInit

RmRaceNext ==
    \/ Tick
    \/ \E s \in Symbols : PersistSignal(s, "BUY")
    \/ \E t \in Threads : StartEngine(t)
    \/ \E t \in Threads, row \in signals, p \in EntryPrices \cup {NoPrice} :
           ProcessTradingSignal_Validate(t, row, p)
    \/ PlaceStep
    \/ PriceMonitoringStep
    \/ \E t \in Readers : ExposureBegin(t)
    \/ \E t \in Readers : ExposureNext(t)
    \/ \E t \in Readers : ExposureRaised(t)

SpecRmRace == RmRaceInit /\ [][RmRaceNext]_vars

\* C20: whatever the interleaving of the engine thread with the threads that
\* read the positions, no reader fails because the map of positions changed
\* while the reader was iterating over it.
Cex_C20_NoReaderFailsIterating ==
    \A t \in Threads : pc[t].at # "size_changed"

\* ---------------------------------------------------------------------------
\* ai_signals.py: detect_signal, the aggregation of the technical, smart-money
\* and sentiment signals.  Vote weights are in thousandths, the 1h ADX is a
\* whole number and the 1h ATR share of the close is in ten-thousandths.
\* The collaborators' answers for the one call under study are in world.
\* ---------------------------------------------------------------------------

\* a reading market_regime could not compute (None)
NoReading == -1

AdxReadings == {NoReading, 10, 20}
AtrPctReadings == {NoReading, 19, 20}

\* market_regime: the label
MarketRegimeLabel(adx_last, atr_pct) ==
    LET regime == IF adx_last # NoReading /\ adx_last >= 20
                  THEN "trend" ELSE "range"
    IN  IF atr_pct # NoReading /\ atr_pct < 20 THEN "quiet" ELSE regime

RegimeLabels == {"trend", "range", "quiet"}

TechSignal_IgnoresRegime(sig_5m, sig_15m, sig_1h, label) ==
    IF sig_5m = "BUY" /\ sig_15m # "SELL" /\ sig_1h # "SELL" THEN "BUY"
    ELSE IF sig_5m = "SELL" /\ sig_15m # "BUY" /\ sig_1h # "BUY" THEN "SELL"
    ELSE "HOLD"

\* detect_signal: the multi-timeframe rule and the quiet-regime adjustment
TechSignal(sig_5m, sig_15m, sig_1h, label) ==
    LET tech_signal ==
            IF sig_5m = "BUY" /\ sig_15m # "SELL" /\ sig_1h # "SELL" THEN "BUY"
            ELSE IF sig_5m = "SELL" /\ sig_15m # "BUY" /\ sig_1h # "BUY"
                 THEN "SELL"
                 ELSE "HOLD"
    IN  IF label = "quiet" THEN "HOLD" ELSE tech_signal

\* load_weights: SIGNAL_WEIGHTS of the environment, or the defaults
DefaultWeights == [tech |-> 500, smart |-> 250, gpt |-> 250]
WeightEnvs ==
    { [set |-> FALSE, tech |-> 0, smart |-> 0, gpt |-> 0],
      [set |-> TRUE, tech |-> 125, smart |-> 125, gpt |-> 750],
      [set |-> TRUE, tech |-> 400, smart |-> 400, gpt |-> 200] }

LoadWeights(raw) ==
    IF raw.set THEN [tech |-> raw.tech, smart |-> raw.smart, gpt |-> raw.gpt]
    ELSE DefaultWeights

\* analyze_top_traders: the imported function, or the stand-in defined when
\* the import fails.  "raises" is a raise out of the imported function.
SmartAnswers == FinalSignals \cup {"NEUTRAL"}
SmartOutcomes ==
    {[kind |-> "unavailable", signal |-> "HOLD"],
     [kind |-> "raises", signal |-> "HOLD"]}
    \cup {[kind |-> "answer", signal |-> s] : s \in SmartAnswers}

AnalyzeTopTraders(outcome) ==
    IF outcome.kind = "raises"
    THEN [raised |-> TRUE, signal |-> "HOLD", error |-> NoneArg,
          source |-> "SmartMoney"]
    ELSE IF outcome.kind = "unavailable"
    THEN [raised |-> FALSE, signal |-> "HOLD", error |-> NoneArg,
          source |-> "SmartMoney(mock)"]
    ELSE [raised |-> FALSE, signal |-> outcome.signal, error |-> NoneArg,
          source |-> "SmartMoney"]

\* analyze_sentiment(news, symbol=, techs=): new_sentiment's function, which
\* catches its own failures, or the stand-in defined when the import fails,
\* which takes no techs argument.
SentimentOutcomes ==
    {[kind |-> "unavailable", signal |-> "HOLD"],
     [kind |-> "fails", signal |-> "HOLD"]}
    \cup {[kind |-> "answer", signal |-> s] : s \in FinalSignals}

AnalyzeSentiment_StandInTakesTechs(outcome) ==
    IF outcome.kind = "unavailable"
    THEN [raised |-> FALSE, signal |-> "HOLD",
          error |-> "news_sentiment module unavailable"]
    ELSE IF outcome.kind = "fails"
    THEN [raised |-> FALSE, signal |-> "HOLD", error |-> "exception"]
    ELSE [raised |-> FALSE, signal |-> outcome.signal, error |-> NoneArg]

AnalyzeSentiment(outcome) ==
    IF outcome.kind = "unavailable"
    THEN [raised |-> TRUE, signal |-> "HOLD", error |-> "TypeError"]
    ELSE IF outcome.kind = "fails"
    THEN [raised |-> FALSE, signal |-> "HOLD", error |-> "exception"]
    ELSE [raised |-> FALSE, signal |-> outcome.signal, error |-> NoneArg]

\* votes[...] += w[...], three times over {"BUY": 0, "SELL": 0, "HOLD": 0}
Votes(tech_signal, smart_signal, gpt_signal, w) ==
    [k \in FinalSignals |->
        (IF tech_signal = k THEN w.tech ELSE 0)
      + (IF smart_signal = k THEN w.smart ELSE 0)
      + (IF gpt_signal = k THEN w.gpt ELSE 0)]

\* the order in which the votes dict holds its keys
VoteOrder == <<"BUY", "SELL", "HOLD">>

MaxVote_Last(votes) ==
    LET top == CHOOSE v \in {votes[k] : k \in FinalSignals} :
                   \A k \in FinalSignals : votes[k] <= v
        i == CHOOSE j \in 1..3 :
                 /\ votes[VoteOrder[j]] = top
                 /\ \A h \in (j + 1)..3 : votes[VoteOrder[h]] # top
    IN  VoteOrder[i]

\* max(votes, key=votes.get): the first key, in dict order, of maximal value
MaxVote(votes) ==
    LET top == CHOOSE v \in {votes[k] : k \in FinalSignals} :
                   \A k \in FinalSignals : votes[k] <= v
        i == CHOOSE j \in 1..3 :
                 /\ votes[VoteOrder[j]] = top
                 /\ \A h \in 1..(j - 1) : votes[VoteOrder[h]] # top
    IN  VoteOrder[i]

\* round(x, 2) of a vote: thousandths to hundredths, a half to the even side
Round2(x) ==
    LET q == x \div 10
        r == x % 10
    IN  IF r > 5 \/ (r = 5 /\ q % 2 = 1) THEN q + 1 ELSE q

DbOutcomes == {"ok", "add_raises", "commit_raises", "close_raises"}
StepFaults == {"none", "fetch", "indicators", "regime"}

\* the first step of detect_signal that raises under these answers, if any
FirstFault(w) ==
    IF w.fault # "none" THEN w.fault
    ELSE IF AnalyzeTopTraders(w.smart).raised THEN "smart_money"
    ELSE IF AnalyzeSentiment(w.gpt).raised THEN "sentiment"
    ELSE IF AnalyzeTopTraders(w.smart).signal \notin FinalSignals THEN "votes"
    ELSE IF w.db # "ok" THEN "database"
    ELSE "none"

ExceptClause_Reraises(symbol, fault) ==
    [ returned |-> FALSE, symbol |-> symbol, final_signal |-> "ERROR",
      error |-> fault ]

\* detect_signal: except Exception as e: return {...}
ExceptClause(symbol, fault) ==
    [ returned |-> TRUE, symbol |-> symbol, final_signal |-> "ERROR",
      error |-> fault ]

\* detect_signal: what the call gives back under the answers w
DetectSignalResult(w) ==
    LET label == MarketRegimeLabel(w.adx, w.atr_pct)
        tech_signal == TechSignal(w.sig_5m, w.sig_15m, w.sig_1h, label)
        smart == AnalyzeTopTraders(w.smart)
        gpt == AnalyzeSentiment(w.gpt)
        votes == Votes(tech_signal, smart.signal, gpt.signal,
                       LoadWeights(w.env))
    IN  IF FirstFault(w) # "none"
        THEN ExceptClause(w.symbol, FirstFault(w))
        ELSE [ returned |-> TRUE, symbol |-> w.symbol,
               final_signal |-> MaxVote(votes),
               votes |-> votes,
               weights |-> [k \in FinalSignals |-> Round2(votes[k])],
               details |-> [ tech |-> tech_signal,
                             tf |-> <<w.sig_5m, w.sig_15m, w.sig_1h>>,
                             regime |-> label,
                             smart_money |-> smart,
                             gpt_sentiment |-> gpt ] ]

\* the row db.commit() has stored, if the call got as far as a commit that
\* did not raise
Committed(w) ==
    LET upto_db == [w EXCEPT !.db = "ok"]
    IN  IF FirstFault(upto_db) = "none" /\ w.db \in {"ok", "close_raises"}
        THEN {[ symbol |-> w.symbol,
                final_signal |-> DetectSignalResult(upto_db).final_signal,
                created_at |-> now ]}
        ELSE {}

DetectSignal ==
    /\ world.kind = "signal"
    /\ last = NoLast
    /\ last' = [op |-> "detect_signal", result |-> DetectSignalResult(world)]
    /\ signals' = signals \cup Committed(world)
    /\ UNCHANGED <<restVars, cfg, now, vol, liq, pure, rmVars, is_running,
                   loops, pending, active_orders, next_order_id>>

\* the answers of a call whose early steps work
CalmWorlds ==
    { [ kind |-> "signal", symbol |-> "BTCUSDT", fault |-> "none",
        sig_5m |-> s5, sig_15m |-> s15, sig_1h |-> s1h, adx |-> adx,
        atr_pct |-> atr, smart |-> sm, gpt |-> g, env |-> e, db |-> d ] :
        s5 \in FinalSignals, s15 \in FinalSignals,
        s1h \in FinalSignals, adx \in AdxReadings, atr \in AtrPctReadings,
        sm \in SmartOutcomes, g \in SentimentOutcomes, e \in WeightEnvs,
        d \in DbOutcomes }

\* a calm world, and the same with a raise in an early step
SignalWorlds ==
    CalmWorlds \cup
    { [w EXCEPT !.fault = f] :
        w \in {c \in CalmWorlds : c.sig_5m = "BUY" /\ c.adx = 20
                                   /\ c.atr_pct = 20},
        f \in StepFaults }

SignalInit ==
    /\ cfg = DefaultConfig
    /\ now = 0
    /\ vol = [s \in Symbols |-> 30]
    /\ liq = [s \in Symbols |-> 2000000]
    /\ pure = NoPure
    /\ EngineIdle
    /\ ModulesLoaded
    /\ world \in SignalWorlds

SignalNext == DetectSignal

SpecSignal == SignalInit /\ [][SignalNext]_vars

\* the answers under which some step of detect_signal raises
SomeStepFails(w) ==
    \/ w.fault # "none"
    \/ w.smart.kind = "raises"
    \/ w.smart.kind = "answer" /\ w.smart.signal \notin FinalSignals
    \/ w.gpt.kind = "unavailable"
    \/ w.db # "ok"

\* C21: detect_signal never lets a fault out.  Whenever a step raises (candle
\* fetch, indicators, regime, a classifier call, the vote tally, add, commit
\* or close of the database session) the call returns the symbol with
\* final_signal ERROR and the error; otherwise it returns a final_signal among
\* BUY, SELL and HOLD together with the vote weights and the details.
Thm_C21_FaultsBecomeErrorResults ==
    last.op = "detect_signal" =>
        LET r == last.result
        IN  /\ r.returned
            /\ r.symbol = world.symbol
            /\ IF SomeStepFails(world)
               THEN /\ r.final_signal = "ERROR"
                    /\ "error" \in DOMAIN r
                    /\ r.error \in {"fetch", "indicators", "regime",
                                    "smart_money", "sentiment", "votes",
                                    "database"}
               ELSE /\ r.final_signal \in FinalSignals
                    /\ {"weights", "details"} \subseteq DOMAIN r
                    /\ DOMAIN r.weights = FinalSignals

Wit_C21_VoteTallyFaultReturned ==
    /\ last.op = "detect_signal"
    /\ world.smart.signal = "NEUTRAL"
    /\ world.db = "ok"
    /\ last.result.final_signal = "ERROR"
    /\ last.result.error = "votes"

\* the same answers with a database that works
WithStorage(w) == [w EXCEPT !.db = "ok"]

\* C22: when only the database fails (add, commit or close raises),
\* detect_signal still returns the final_signal it computed, with weights and
\* details, and not ERROR.
Cex_C22_StorageFaultKeepsTheSignal ==
    (/\ last.op = "detect_signal"
     /\ world.db # "ok"
     /\ ~SomeStepFails(WithStorage(world)))
    => /\ last.result.final_signal \in FinalSignals
       /\ last.result = DetectSignalResult(WithStorage(world))

\* C23: the votes have exactly the keys BUY, SELL and HOLD, none negative,
\* summing to the three weights (1.0 by default); every source adds its
\* weight to the key of its signal; final_signal has a maximal vote and, of
\* the keys of maximal vote, is the first in the order BUY, SELL, HOLD.
Thm_C23_WeightedVote ==
    (last.op = "detect_signal" /\ last.result.final_signal # "ERROR") =>
        LET r == last.result
            w == LoadWeights(world.env)
            src == <<r.details.tech, r.details.smart_money.signal,
                     r.details.gpt_sentiment.signal>>
            wt == <<w.tech, w.smart, w.gpt>>
            Rank(k) == CHOOSE i \in 1..3 : VoteOrder[i] = k
        IN  /\ DOMAIN r.votes = {"BUY", "SELL", "HOLD"}
            /\ \A k \in DOMAIN r.votes : r.votes[k] >= 0
            /\ r.votes["BUY"] + r.votes["SELL"] + r.votes["HOLD"]
                 = w.tech + w.smart + w.gpt
            /\ ~world.env.set =>
                 r.votes["BUY"] + r.votes["SELL"] + r.votes["HOLD"] = 1000
            /\ \A i \in 1..3 : src[i] \in DOMAIN r.votes
            /\ \A k \in DOMAIN r.votes :
                 r.votes[k] = (IF src[1] = k THEN wt[1] ELSE 0)
                            + (IF src[2] = k THEN wt[2] ELSE 0)
                            + (IF src[3] = k THEN wt[3] ELSE 0)
            /\ \A k \in DOMAIN r.votes :
                 /\ r.votes[k] <= r.votes[r.final_signal]
                 /\ r.votes[k] = r.votes[r.final_signal]
                      => Rank(r.final_signal) <= Rank(k)

Wit_C23_TieGoesToTheEarlierKey ==
    /\ last.op = "detect_signal"
    /\ last.result.final_signal = "SELL"
    /\ last.result.votes["SELL"] = 500
    /\ last.result.votes["HOLD"] = 500

\* C24: the technical signal is BUY exactly when the regime is not quiet, the
\* 5m signal is BUY and neither the 15m nor the 1h signal is SELL; SELL in
\* the mirrored case; HOLD otherwise, so a quiet regime always gives HOLD.
Thm_C24_TechnicalCombination ==
    (last.op = "detect_signal" /\ last.result.final_signal # "ERROR") =>
        LET d == last.result.details
            quiet == world.atr_pct # NoReading /\ world.atr_pct < 20
            buy == /\ ~quiet
                   /\ d.tf[1] = "BUY" /\ d.tf[2] # "SELL" /\ d.tf[3] # "SELL"
            sell == /\ ~quiet
                    /\ d.tf[1] = "SELL" /\ d.tf[2] # "BUY" /\ d.tf[3] # "BUY"
        IN  /\ d.regime \in RegimeLabels
            /\ d.regime = "quiet" <=> quiet
            /\ d.tech = "BUY" <=> buy
            /\ d.tech = "SELL" <=> sell
            /\ d.tech = "HOLD" <=> ~buy /\ ~sell

Wit_C24_QuietRegimeHolds ==
    /\ last.op = "detect_signal"
    /\ last.result.final_signal # "ERROR"
    /\ last.result.details.regime = "quiet"
    /\ last.result.details.tf = <<"SELL", "SELL", "HOLD">>
    /\ last.result.details.tech = "HOLD"

\* C25: when the smart-money or the sentiment classifier is unavailable or
\* fails, detect_signal does not fail: that classifier's weight goes to HOLD,
\* an error is attached to its detail, and final_signal is still the key of
\* the largest vote.
Cex_C25_ClassifierOutageIsNeutral ==
    (/\ last.op = "detect_signal"
     /\ world.fault = "none"
     /\ world.db = "ok"
     /\ world.smart.signal \in FinalSignals)
    => LET r == last.result
           smart_out == world.smart.kind \in {"unavailable", "raises"}
           gpt_out == world.gpt.kind \in {"unavailable", "fails"}
       IN  (smart_out \/ gpt_out) =>
              /\ r.final_signal \in FinalSignals
              /\ r.final_signal = MaxVote(r.votes)
              /\ smart_out => /\ r.details.smart_money.signal = "HOLD"
                              /\ r.details.smart_money.error # NoneArg
              /\ gpt_out => /\ r.details.gpt_sentiment.signal = "HOLD"
                            /\ r.details.gpt_sentiment.error # NoneArg

\* ---------------------------------------------------------------------------
\* monitoring.py: the risk-level classifier and the throttling of risk alerts.
\* In SpecMonitor the clock counts check intervals (check_interval, 60 s); the
\* hour of _should_send_alert is HourTicks intervals and max_alerts_per_hour
\* is scaled from 10 to MaxAlertsPerHour.  alert_history and sent keep only
\* the records of the trailing hour: older ones decide nothing below.
\* ---------------------------------------------------------------------------

HourTicks == 3
MaxAlertsPerHour == 2
MaxMonitorClock == 5

RiskLevels == <<"LOW", "MEDIUM", "HIGH", "CRITICAL">>

\* _analyze_risk_level, on the fields of RiskMetrics it reads: exposure and
\* P&L in USDT, drawdown in percent.  x > limit * 0.9 is 10 * x > limit * 9.
AnalyzeRiskLevel(m, c) ==
    LET Above(x, limit, tenths) == 10 * x > limit * tenths
        Over(tenths) ==
            \/ Above(m.total_exposure, c.max_total_exposure_usdt, tenths)
            \/ Above(0 - m.daily_pnl, c.max_daily_loss_usdt, tenths)
            \/ Above(m.max_drawdown, c.max_drawdown_percent, tenths)
    IN  IF Over(9) THEN "CRITICAL"
        ELSE IF Over(7) THEN "HIGH"
        ELSE IF Over(5) THEN "MEDIUM"
        ELSE "LOW"

\* alert_config["risk_levels"][level]["telegram"]
TelegramEnabled(level) == level # "LOW"

\* the records of the trailing hour
Recent(history, t) == SelectSeq(history, LAMBDA a : t - a.timestamp < HourTicks)

ShouldSendAlert_OneMore(history, t, level) ==
    IF Len(Recent(history, t)) > MaxAlertsPerHour THEN FALSE
    ELSE TelegramEnabled(level)

\* _should_send_alert
ShouldSendAlert(history, t, level) ==
    IF Len(Recent(history, t)) >= MaxAlertsPerHour THEN FALSE
    ELSE TelegramEnabled(level)

\* the metrics get_risk_metrics gives the loop: _calculate_daily_loss and
\* _calculate_drawdown are constant 0
LoopMetrics ==
    {[ total_exposure |-> x, daily_pnl |-> CalculateDailyLoss,
       max_drawdown |-> CalculateDrawdown ] :
        x \in {0, 2500, 2600, 3600, 4600}}

\* start_monitoring: a second call while running returns at once; otherwise
\* the flag is set and a new thread runs the loops
StartMonitoring ==
    /\ IF monitor.is_running
       THEN UNCHANGED monitor
       ELSE \E l \in 1..MaxMonitorLoops :
               /\ monitor.wake[l] = NoLoop
               /\ monitor' = [monitor EXCEPT !.is_running = TRUE,
                                             !.wake[l] = clock]
    /\ last' = [op |-> "start_monitoring"]
    /\ UNCHANGED <<world, profiles, cacheVars, backoff, pc, cfg, now, vol,
                   liq, pure, rmVars, engineVars>>

\* stop_monitoring
StopMonitoring ==
    /\ monitor.is_running
    /\ monitor' = [monitor EXCEPT !.is_running = FALSE]
    /\ last' = NoLast
    /\ UNCHANGED <<world, profiles, cacheVars, backoff, pc, cfg, now, vol,
                   liq, pure, rmVars, engineVars>>

\* _risk_monitoring_loop: the loop wakes and finds the flag cleared
RiskLoopReturn(l) ==
    /\ monitor.wake[l] # NoLoop
    /\ monitor.wake[l] <= clock
    /\ ~monitor.is_running
    /\ monitor' = [monitor EXCEPT !.wake[l] = NoLoop]
    /\ last' = NoLast
    /\ UNCHANGED <<world, profiles, cacheVars, backoff, pc, cfg, now, vol,
                   liq, pure, rmVars, engineVars>>

\* _risk_monitoring_loop: one iteration.  raised: get_risk_metrics raises and
\* the except clause sleeps two intervals.
RiskLoopIteration(l, m, raised) ==
    /\ monitor.wake[l] # NoLoop
    /\ monitor.wake[l] <= clock
    /\ monitor.is_running
    /\ IF raised
       THEN /\ monitor' = [monitor EXCEPT !.wake[l] = clock + 2]
            /\ last' = [op |-> "risk_iteration", raised |-> TRUE,
                        metrics |-> m, level |-> "LOW", sent |-> FALSE]
       ELSE LET level == AnalyzeRiskLevel(m, cfg)
                send == ShouldSendAlert(monitor.alert_history, clock, level)
                alert == [risk_level |-> level, timestamp |-> clock]
            IN  /\ monitor' =
                     [monitor EXCEPT
                        !.wake[l] = clock + 1,
                        !.sent = IF send THEN Append(@, clock) ELSE @,
                        !.alert_history =
                            Append(Recent(@, clock), alert)]
                /\ last' = [op |-> "risk_iteration", raised |-> FALSE,
                            metrics |-> m, level |-> level, sent |-> send]
    /\ UNCHANGED <<world, profiles, cacheVars, backoff, pc, cfg, now, vol,
                   liq, pure, rmVars, engineVars>>

\* a check interval passes
MonitorTick ==
    /\ clock < MaxMonitorClock
    /\ clock' = clock + 1
    /\ monitor' = [monitor EXCEPT
                      !.alert_history = Recent(@, clock + 1),
                      !.sent = SelectSeq(@, LAMBDA t : clock + 1 - t < HourTicks)]
    /\ last' = NoLast
    /\ UNCHANGED <<world, profiles, cache, stats, backoff, pc, cfg, now, vol,
                   liq, pure, rmVars, engineVars>>

MonitorInit == ConfigInit

MonitorNext ==
    \/ StartMonitoring
    \/ StopMonitoring
    \/ MonitorTick
    \/ \E l \in 1..MaxMonitorLoops : RiskLoopReturn(l)
    \/ \E l \in 1..MaxMonitorLoops, m \in LoopMetrics, raised \in BOOLEAN :
          RiskLoopIteration(l, m, raised)

SpecMonitor == MonitorInit /\ [][MonitorNext]_vars

\* the level the classification rule with inclusive thresholds gives
LevelAtOrAbove(m, c) ==
    LET Reached(tenths) ==
            \/ 10 * m.total_exposure >= c.max_total_exposure_usdt * tenths
            \/ 10 * (0 - m.daily_pnl) >= c.max_daily_loss_usdt * tenths
            \/ 10 * m.max_drawdown >= c.max_drawdown_percent * tenths
    IN  IF Reached(9) THEN "CRITICAL"
        ELSE IF Reached(7) THEN "HIGH"
        ELSE IF Reached(5) THEN "MEDIUM"
        ELSE "LOW"

\* C26: the level is CRITICAL iff exposure, daily loss or drawdown is at least
\* 90% of its limit, otherwise HIGH iff one is at least 70%, otherwise MEDIUM
\* iff one is at least 50%, otherwise LOW; a value exactly at a threshold
\* counts in the higher level.
Cex_C26_ThresholdCountsInHigherLevel ==
    (last.op = "risk_iteration" /\ ~last.raised) =>
        last.level = LevelAtOrAbove(last.metrics, cfg)

\* the risk alerts sent in the hour that ends at time t
SentInHour(t) == SelectSeq(monitor.sent, LAMBDA u : t - u < HourTicks)

Absent == <<-1, 1>>

RDiv(a, b) == Rat(a[1] * b[2], a[2] * b[1])

\* Decimal.to_integral_value of a value that is not negative
ToIntegralValue(a, rounding) ==
    IF rounding = "ROUND_DOWN" THEN a[1] \div a[2]
    ELSE (a[1] + a[2] - 1) \div a[2]

\* round_to_step
RoundToStep(value, step, rounding) ==
    IF RLe(step, RInt(0)) THEN value
    ELSE RMul(RInt(ToIntegralValue(RDiv(value, step), rounding)), step)

ApplyFilters_BumpRoundsDown(f, quantity, price) ==
    LET p1 == IF f.tick_size # Absent
              THEN RoundToStep(price, f.tick_size, "ROUND_DOWN") ELSE price
        p == IF f.min_price # Absent /\ RLt(p1, f.min_price)
             THEN f.min_price ELSE p1
        q1 == IF f.step_size # Absent
              THEN RoundToStep(quantity, f.step_size, "ROUND_DOWN")
              ELSE quantity
        q2 == IF f.min_qty # Absent /\ RLt(q1, f.min_qty)
              THEN f.min_qty ELSE q1
        q3 == IF /\ f.min_notional # Absent
                 /\ RLt(RMul(p, q2), f.min_notional)
                 /\ RLt(RInt(0), p)
              THEN IF f.step_size # Absent
                   THEN RoundToStep(RDiv(f.min_notional, p), f.step_size,
                                    "ROUND_DOWN")
                   ELSE RDiv(f.min_notional, p)
              ELSE q2
        q == IF RLe(q3, RInt(0))
             THEN IF f.min_qty # Absent THEN f.min_qty ELSE <<1, 100000000>>
             ELSE q3
    IN  [quantity |-> q, price |-> p]

\* _apply_filters, given the filters of the symbol info
ApplyFilters(f, quantity, price) ==
    LET p1 == IF f.tick_size # Absent
              THEN RoundToStep(price, f.tick_size, "ROUND_DOWN") ELSE price
        p == IF f.min_price # Absent /\ RLt(p1, f.min_price)
             THEN f.min_price ELSE p1
        q1 == IF f.step_size # Absent
              THEN RoundToStep(quantity, f.step_size, "ROUND_DOWN")
              ELSE quantity
        q2 == IF f.min_qty # Absent /\ RLt(q1, f.min_qty)
              THEN f.min_qty ELSE q1
        q3 == IF /\ f.min_notional # Absent
                 /\ RLt(RMul(p, q2), f.min_notional)
                 /\ RLt(RInt(0), p)
              THEN IF f.step_size # Absent
                   THEN RoundToStep(RDiv(f.min_notional, p), f.step_size,
                                    "ROUND_UP")
                   ELSE RDiv(f.min_notional, p)
              ELSE q2
        q == IF RLe(q3, RInt(0))
             THEN IF f.min_qty # Absent THEN f.min_qty ELSE <<1, 100000000>>
             ELSE q3
    IN  [quantity |-> q, price |-> p]

StepSizes == {Absent, <<1, 1000>>, <<1, 100>>}
MinQtys == {Absent, <<1, 1000>>, <<1, 100>>}
TickSizes == {Absent, <<1, 100>>, <<1, 2>>}
MinPrices == {Absent, <<1, 100>>}
MinNotionals == {Absent, <<10, 1>>, <<5, 1>>}
ProposedQuantities == {<<1, 2000>>, <<1, 20>>, <<617, 5000>>, <<1, 1>>}
ProposedPrices == {<<100, 1>>, <<20001, 200>>, <<1, 200>>, <<37, 4>>}

\* place_limit_order: what goes to create_order.  Without symbol info
\* _apply_filters hands the proposal back as it is.
PlaceLimitOrder ==
    /\ world.kind = "order"
    /\ last = NoLast
    /\ LET adj == IF world.info
                  THEN ApplyFilters(world.filters, world.quantity, world.price)
                  ELSE [quantity |-> world.quantity, price |-> world.price]
       IN  last' = [ op |-> "place_limit_order", quantity |-> adj.quantity,
                     price |-> adj.price, reply |-> world.reply ]
    /\ UNCHANGED <<restVars, cfg, now, vol, liq, pure, rmVars, engineVars>>

OrderWorlds ==
    { [ kind |-> "order", info |-> i, reply |-> r, quantity |-> q,
        price |-> p,
        filters |-> [ step_size |-> ss, min_qty |-> mq, tick_size |-> ts,
                      min_price |-> mp, min_notional |-> mn ] ] :
        i \in BOOLEAN, r \in {"order", "null"}, q \in ProposedQuantities,
        p \in ProposedPrices, ss \in StepSizes, mq \in MinQtys,
        ts \in TickSizes, mp \in MinPrices, mn \in MinNotionals }

FiltersInit ==
    /\ cfg = DefaultConfig
    /\ now = 0
    /\ vol = [s \in Symbols |-> 30]
    /\ liq = [s \in Symbols |-> 2000000]
    /\ pure = NoPure
    /\ EngineIdle
    /\ ModulesLoaded
    /\ world \in OrderWorlds

FiltersNext == PlaceLimitOrder

SpecFilters == FiltersInit /\ [][FiltersNext]_vars

IsMultipleOf(x, step) == RDiv(x, step)[2] = 1

ActiveId(id) == \E o \in active_orders : o.orderId = id

\* C29: active_orders holds exactly the placed orders not yet seen in a
\* terminal status: an order polled FILLED is finalised and removed, CANCELED
\* is removed, EXPIRED is cancelled and removed, any other status leaves the
\* order as it is; and every placed order eventually leaves active_orders
\* (here: every placed order the exchange has filled, under a loop that keeps
\* running).
Cex_C29_FilledOrderLeavesActiveSet ==
    \A id \in 1..MaxOrders :
        (\E o \in active_orders : o.orderId = id /\ o.filled)
            ~> ~ActiveId(id)

\* C30: clear() empties the cache and resets the statistics: afterwards the
\* cache holds no entry and hits, misses, sets and evictions are all 0; a key
\* appears in the cache only through a set on that key, and a get on a key
\* that is not in the cache is a miss.
Thm_C30_ClearEmptiesAndResets ==
    [][ /\ last'.op = "clear" =>
              /\ DOMAIN cache' = {}
              /\ \A n \in {"hits", "misses", "sets", "evictions"} :
                     stats'[n] = 0
        /\ \A k \in DOMAIN cache' \ DOMAIN cache :
              last'.op = "set" /\ last'.key = k
        /\ (last'.op = "get" /\ last'.key \notin DOMAIN cache) =>
              /\ last'.result = NoneArg
              /\ stats'.misses = stats.misses + 1
              /\ stats'.hits = stats.hits ]_vars

Wit_C30_FullCacheCleared ==
    /\ last.op = "clear"
    /\ last.dropped >= CacheCapacity
    /\ DOMAIN cache = {}
    /\ stats = NoStats

\* C31: whatever set, get, get_stats and clear calls were made, the cache
\* never holds more entries than its capacity (1000 in the code, CacheCapacity
\* here), also when no entry is expired and every set brings a new key.
Cex_C31_CacheWithinCapacity ==
    Cardinality(DOMAIN cache) <= CacheCapacity

\* what get_risk_config returns when no call was made before
FirstCallResult(profile, asset, timeframe) ==
    LET base == InitialProfiles[BaseProfile(profile)]
        with_asset ==
            IF asset # NoneArg /\ asset \in DOMAIN AssetSpecificConfigs
            THEN MergeOverrides(base, AssetSpecificConfigs[asset])
            ELSE base
    IN  IF timeframe # NoneArg /\ timeframe \in DOMAIN TimeframeSpecificConfigs
        THEN MergeOverrides(with_asset, TimeframeSpecificConfigs[timeframe])
        ELSE with_asset

\* C32: get_risk_config is a pure function of its arguments over immutable
\* configurations: whatever calls were made before, the shared profile
\* configurations (default, conservative, aggressive) are as they were
\* defined, and a call returns for every (profile, asset, timeframe) what it
\* would have returned as the first call.
Cex_C32_GetRiskConfigIsPure ==
    /\ profiles = InitialProfiles
    /\ \A profile \in ProfileArgs, asset \in AssetArgs,
          timeframe \in TimeframeArgs :
           GetRiskConfigResult(profile, asset, timeframe)
             = FirstCallResult(profile, asset, timeframe)

\* ---------------------------------------------------------------------------
\* The price loop with the price cache (SpecPrice).  The clock counts in units
\* of the TTL of a cached price (30 s in the code, PriceTtl here); the loop
\* iterates every 5 s, several times per unit.  A cached price carries the
\* time at which it was read from the exchange (read_at), which the code does
\* not store and no step reads.
\* ---------------------------------------------------------------------------

PriceTtl == 1
MaxPriceOps == 9
BookPrices == {95, 100}

PriceKey(symbol) == GenerateKey("current_price", << <<"symbol", symbol>> >>)

\* _price_monitoring_loop, one symbol: _get_current_price (the cached price if
\* one is stored and not expired, else the mid price of the order book, which
\* it stores for 30 s; None without an order book), then
\* check_stop_loss_take_profit, then the price is stored again under
\* CACHE_TTL["orderbook"].  book: what the exchange would answer.
PriceLoopSymbol(t, symbol, book) ==
    LET key == PriceKey(symbol)
        hit == key \in DOMAIN cache /\ ~IsExpired(cache[key])
        dropped == IF key \in DOMAIN cache /\ ~hit
                   THEN Remove(cache, {key}) ELSE cache
        current == IF hit THEN cache[key].data
                   ELSE [price |-> book, read_at |-> clock]
        fetched == ~hit /\ book # NoPrice
        entry == CacheEntry(current, clock, PriceTtl)
    IN  /\ is_running
        /\ "price" \in loops[t]
        /\ <<t, "price">> \notin backoff
        /\ ~Busy(t)
        /\ CacheOps + 3 <= MaxPriceOps
        /\ Cardinality(DOMAIN cache) <= CacheCapacity
        /\ IF current.price = NoPrice
           THEN /\ cache' = dropped
                /\ stats' = [stats EXCEPT
                               !.misses = @ + 1,
                               !.evictions = @ + (IF dropped # cache
                                                  THEN 1 ELSE 0)]
                /\ last' = NoLast
                /\ UNCHANGED positions
           ELSE /\ CheckStopLossTakeProfitSignals(symbol, current.price) = <<>>
                /\ positions' =
                     CheckStopLossTakeProfitPositions(symbol, current.price)
                /\ cache' = Put(dropped, key, entry)
                /\ stats' = [stats EXCEPT
                               !.hits = @ + (IF hit THEN 1 ELSE 0),
                               !.misses = @ + (IF hit THEN 0 ELSE 1),
                               !.evictions = @ + (IF dropped # cache
                                                  THEN 1 ELSE 0),
                               !.sets = @ + (IF fetched THEN 2 ELSE 1)]
                /\ last' = [ op |-> "check_stop_loss_take_profit",
                             symbol |-> symbol, price |-> current.price,
                             read_at |-> current.read_at ]
        /\ UNCHANGED <<monitor, world, profiles, clock, backoff, pc, cfg, now,
                       vol, liq, pure, last_trade_time, engineVars>>

PriceInit == RestartInit

PriceNext ==
    \/ \E t \in Threads : StartEngine(t)
    \/ ClockTick
    \/ \E t \in Threads, symbol \in Symbols, book \in BookPrices \cup {NoPrice} :
          PriceLoopSymbol(t, symbol, book)

SpecPrice == PriceInit /\ [][PriceNext]_vars

\* C33: the price the price loop passes to check_stop_loss_take_profit was
\* read from the exchange no longer ago than the TTL of the price cache.
Cex_C33_CheckedPriceIsFresh ==
    last.op = "check_stop_loss_take_profit" =>
        clock - last.read_at <= PriceTtl

\* C34: for every interleaving of start and stop requests, at most one
\* instance of each of the four engine loops is alive.
Cex_C34_OneInstanceOfEachLoop ==
    \A name \in LoopNames :
        Cardinality({t \in Threads : name \in loops[t]}) <= 1

\* ---------------------------------------------------------------------------
\* SpecNarrow: the restarted engine of SpecRestart under a RiskConfig whose
\* total-exposure cap is below two positions of full size.
\* ---------------------------------------------------------------------------

\* A RiskConfig that validate_risk_config accepts
NarrowConfig == [TightConfig EXCEPT !.max_total_exposure_usdt = 500]

NarrowInit ==
    /\ cfg = NarrowConfig
    /\ now = 0
    /\ vol = [s \in Symbols |-> 30]
    /\ liq = [s \in Symbols |-> 2000000]
    /\ pure = NoPure
    /\ EngineIdle
    /\ ModulesLoaded
    /\ world = NoWorld

SpecNarrow == NarrowInit /\ [][RestartNext]_vars

\* C35: right after the signal loop has registered a new position, the total
\* exposure (quantity times current price over all open positions) is within
\* max_total_exposure_usdt and the position's quantity times entry price is
\* within max_position_size_usdt.
Cex_C35_RegistrationWithinCaps ==
    (last.op = "place_entry" /\ last.placed) =>
        /\ RLe(CalculateTotalExposure, RInt(cfg.max_total_exposure_usdt))
        /\ \A s \in Symbols : \A i \in 1..Len(positions[s]) :
               RLe(RMul(positions[s][i].quantity, RInt(positions[s][i].entry_price)),
                   RInt(cfg.max_position_size_usdt))

\* the entry orders placed for a persisted decision
EntryOrdersFor(row) ==
    { o \in active_orders :
        o.kind = "entry" /\ o.symbol = row.symbol /\ o.side = row.final_signal }

\* C36: under the default RiskConfig a persisted BUY or SELL decision leads to
\* at most one placed entry order and one registered position, however often
\* the signal loop reads it again within its five minutes.
Cex_C36_OneEntryPerDecision ==
    cfg = DefaultConfig =>
        \A row \in signals :
            /\ Cardinality(EntryOrdersFor(row)) <= 1
            /\ Len(positions[row.symbol]) <= 1

\* the quantity the first k exit signals ask to close of position i
RECURSIVE ExitQuantity(_, _, _)
ExitQuantity(sigs, i, k) ==
    IF k = 0 THEN RInt(0)
    ELSE RAdd(ExitQuantity(sigs, i, k - 1),
              IF sigs[k].index = i THEN sigs[k].quantity ELSE RInt(0))

\* C37: one call of check_stop_loss_take_profit never asks to close more of a
\* position than the position holds, and never reports a stop-loss and a
\* take-profit for the same position.
Cex_C37_ExitsWithinPosition ==
    \A symbol \in Symbols, price \in Prices :
        LET sigs == CheckStopLossTakeProfitSignals(symbol, price)
        IN  \A i \in 1..Len(positions[symbol]) :
                /\ RLe(ExitQuantity(sigs, i, Len(sigs)),
                       positions[symbol][i].quantity)
                /\ ~(Reported(sigs, "STOP_LOSS", i) # {}
                       /\ Reported(sigs, "TAKE_PROFIT", i) # {})

\* C38: while monitoring runs, an iteration that classifies the risk at a
\* level the channel is enabled for sends the alert unless max_alerts_per_hour
\* alerts were sent in the trailing hour, however long the level was LOW
\* before.
Cex_C38_EnabledLevelIsAlerted ==
    ( /\ last.op = "risk_iteration"
      /\ ~last.raised
      /\ TelegramEnabled(last.level)
      /\ ~last.sent )
    => Len(SentInHour(clock)) >= MaxAlertsPerHour

\* ---------------------------------------------------------------------------
\* SpecSubmit: _process_trading_signal down to create_order.  The symbol info
\* of the exchange, its answer and the price read are fixed at the start.
\* ---------------------------------------------------------------------------

SubmitPrices == {100, 60000}

\* _process_trading_signal for one row, with _place_order and
\* place_limit_order (which applies the filters of the symbol info to what
\* was validated): the whole handler, nothing of the event loop runs meanwhile.
ProcessTradingSignal(t, row) ==
    /\ world.kind = "entry"
    /\ is_running
    /\ "signal" \in loops[t]
    /\ ~Busy(t)
    /\ row \in signals
    /\ IsRecent(row)
    /\ IsTradable(row.final_signal)
    /\ next_order_id <= MaxOrders
    /\ LET symbol == row.symbol
           side == row.final_signal
           current_price == world.price
           account_balance == GetAccountBalance
           quantity == CalculatePositionSize(symbol, current_price, account_balance)
           v == ValidateTrade(symbol, side, quantity, current_price, account_balance)
           adj == IF world.info
                  THEN ApplyFilters(world.filters, quantity, RInt(current_price))
                  ELSE [quantity |-> quantity, price |-> RInt(current_price)]
           order == ~SignalRejected(v.ok) /\ OrderPlaced(world.reply)
       IN  /\ active_orders' =
                IF order
                THEN active_orders \cup
                       {ActiveOrder(next_order_id, symbol, side, quantity,
                                    current_price, "entry", "ENTRY", 0)}
                ELSE active_orders
           /\ next_order_id' = IF order THEN next_order_id + 1 ELSE next_order_id
           /\ IF order
              THEN UpdatePosition(symbol, side, quantity, current_price,
                                  next_order_id)
              ELSE UNCHANGED rmVars
           /\ last' = [ op |-> "process_trading_signal", symbol |-> symbol,
                        ok |-> v.ok, placed |-> order,
                        quantity |-> quantity, price |-> current_price,
                        submitted |-> adj ]
    /\ UNCHANGED <<restVars, cfg, now, vol, liq, pure, is_running, loops,
                   pending, signals>>

EntryWorlds ==
    { [ kind |-> "entry", info |-> i, reply |-> r, price |-> p,
        filters |-> [ step_size |-> ss, min_qty |-> mq, tick_size |-> ts,
                      min_price |-> mp, min_notional |-> mn ] ] :
        i \in BOOLEAN, r \in {"order", "null"}, p \in SubmitPrices,
        ss \in StepSizes, mq \in MinQtys, ts \in TickSizes, mp \in MinPrices,
        mn \in MinNotionals }

SubmitInit ==
    /\ cfg \in EngineConfigs
    /\ now = 0
    /\ vol = [s \in Symbols |-> 30]
    /\ liq = [s \in Symbols |-> 2000000]
    /\ pure = NoPure
    /\ EngineIdle
    /\ ModulesLoaded
    /\ world \in EntryWorlds

SubmitNext ==
    \/ \E f \in FinalSignals : PersistSignal("BTCUSDT", f)
    \/ \E t \in Threads : StartEngine(t)
    \/ \E t \in Threads, row \in signals : ProcessTradingSignal(t, row)

SpecSubmit == SubmitInit /\ [][SubmitNext]_vars

\* C39: the quantity and price submitted to the exchange are the quantity and
\* price validate_trade accepted and update_position records, and the
\* submitted notional is within max_position_size_usdt.
Cex_C39_SubmittedIsValidated ==
    (last.op = "process_trading_signal" /\ last.placed) =>
        LET recorded == positions[last.symbol][Len(positions[last.symbol])]
        IN  /\ REq(last.submitted.quantity, last.quantity)
            /\ REq(last.submitted.price, RInt(last.price))
            /\ REq(last.submitted.quantity, recorded.quantity)
            /\ REq(last.submitted.price, RInt(recorded.entry_price))
            /\ RLe(RMul(last.submitted.quantity, last.submitted.price),
                   RInt(cfg.max_position_size_usdt))

====
